---- MODULE Spec2Model ----
(***************************************************************************)
(* Model of the real-time detection pipeline of the HIDS backend:          *)
(*   - FileMonitor   (backend/app/services/file_monitor.py)                *)
(*   - PacketMonitor (backend/app/services/pcap.py)                        *)
(* The asyncio event loop is modelled by interleaving: one action is the   *)
(* code a coroutine runs between two suspension points (awaits).  Threads  *)
(* (watchdog observer, capture thread) are separate interleaved actions.   *)
(***************************************************************************)
EXTENDS Bags, FiniteSets, Integers, Naturals, Sequences, TLC

\* ------------------------------------------------------------------ bounds
MaxEvents == 2          \* events the watcher emits in one behaviour of Spec
EscalationEvents == 8   \* events the watcher emits in SpecEscalation
MaxRuns == 2            \* start() calls that create a consumer task / observer
MaxQueue == 2           \* scheduled puts plus queued events at one time
MaxCaptures == 2        \* PacketMonitor.start() calls that spawn a thread
MaxSent == 2            \* network_packet events handed to the loop
MaxRules == 2           \* rules in the list the classifier walks
MaxLines == 3           \* lines in the output list_rules parses
MaxConns == 3           \* websockets the /ws endpoint accepts
MaxStarts == 3          \* NetworkMonitor.start() calls that pass the guard

\* ---------------------------------------------------------- program values
AutoLockThreshold == 5  \* file_monitor.py:166  access_attempts > 5

None == [py |-> "NoneType", v |-> "None"]
PyStr(s) == [py |-> "str", v |-> s]
\* a member of database.FileStatus (enum.Enum, no str mixin)
FileStatusMember(n) == [py |-> "FileStatus", v |-> n]

\* paths are strings, kept as sequences of characters so that startswith
\* and dirname are computed
FilePath == <<"/", "f">>            \* a protected regular file
SiblingPath == <<"/", "g">>         \* unprotected file in the same directory
DirPath == <<"/", "d">>             \* a protected directory
ChildPath == <<"/", "d", "/", "x">> \* a file below the protected directory

EventTypes == {"modified", "created", "deleted", "moved"}
EventPaths == {FilePath, SiblingPath, ChildPath}

FileId == 1
DirId == 2
FileIds == {FileId, DirId}

TaskIds == 1..MaxRuns
ObserverIds == 1..MaxRuns
CaptureIds == 1..MaxCaptures

NoPacket == [protocol |-> <<>>, src_ip |-> <<>>, dst_ip |-> <<>>,
             src_port |-> 0, dst_port |-> 0]

VARIABLES
  \* ---- FileMonitor fields (file_monitor.py:41-51)
  monitoring,        \* self.monitoring
  observer,          \* self.observer: 0 for None, else an observer id
  protected_paths,   \* self.protected_paths
  event_queue,       \* self.event_queue (asyncio.Queue)
  event_loop,        \* self.event_loop is set
  processing_task,   \* self.processing_task: 0 for None, else a task id
  \* ---- execution contexts
  observers,         \* observer id -> "unborn" | "alive" | "stopped"
  watches,           \* observer id -> set of scheduled watches
  tasks,             \* task id -> position of that _process_events task
  cur,               \* task id -> event being handled
  pf,                \* task id -> protected_file object held by the handler
  pending,           \* puts scheduled by run_coroutine_threadsafe, not yet run
  startPc,           \* position of a start() call
  stopPc,            \* position of a stop() call
  \* ---- external collaborators
  protected_files,   \* table protected_files: id -> row
  alerts,            \* table alerts: bag of rows
  broadcasts,        \* bag of messages passed to WebSocketManager.broadcast
  \* ---- bookkeeping
  emitted,           \* number of events the watcher produced so far
  h0,                \* task id -> tables as they were when cur was dequeued
  handled,           \* numbers of the events dequeued so far, in that order
  failed,            \* numbers of the events whose handling met a failure
  \* ---- PacketMonitor fields (pcap.py:78-84)
  rules,             \* self.rules
  running,           \* self.running
  local_ips,         \* self.local_ips
  thread,            \* self.thread: 0 for None, else a capture thread id
  \* ---- capture threads and classifier calls
  captures,          \* capture thread id -> position of that _capture_loop
  packet,            \* the arguments of the check_packet_status call
  verdict,           \* what that call gave
  warned,            \* "Packet capture already running" was printed
  loop,              \* self.loop: "open" | "closed"
  lines,             \* capture thread id -> the line it read last, <<>> if none
  sent,              \* packets handed to self.loop for broadcast_network_packet
  load_failed,       \* the last load_firewall_rules call caught an exception
  \* ---- UFWManager (firewall.py)
  ufw_output,        \* what `ufw status numbered` prints, line by line
  listing,           \* the list_rules call: whether it returned, and what
  ufw_call,          \* the command method called, its argv and what the tool did
  ufw_result,        \* what that call returned or raised
  \* ---- WebSocketManager (websocket_manager.py:10-12), per instance
  active_connections, \* manager -> self.active_connections
  connection_info,   \* manager -> the keys of self.connection_info
  accepted,          \* number of websockets the /ws endpoint has accepted
  bcast,             \* the broadcast call in progress: position and locals
  \* ---- NetworkMonitor (network_monitor.py:16-21)
  net_monitoring,    \* self.monitoring
  monitor_task,      \* self.monitor_task: 0 for None, else a task id
  monitor_tasks,     \* task id -> position of that _monitor_loop task
  net_loading,       \* start() calls suspended in _load_firewall_rules
  net_stopping       \* the tasks that suspended stop() calls await

fmVars == <<monitoring, observer, protected_paths, event_queue, event_loop,
            processing_task, observers, watches, tasks, cur, pf, pending,
            startPc, stopPc, protected_files, alerts, broadcasts, emitted, h0,
            handled, failed>>

\* what the capture threads and the classifier leave alone
pmAux == <<warned, loop>>

\* what a capture thread reads and what it hands on
capIO == <<lines, sent>>

pmVars == <<rules, running, local_ips, thread, captures, packet, verdict,
            pmAux, capIO, load_failed>>

\* what list_rules reads and returns
fwVars == <<ufw_output, listing, ufw_call, ufw_result>>

\* the WebSocketManager instances and the broadcast in progress
wsVars == <<active_connections, connection_info, accepted, bcast>>

\* the NetworkMonitor and its calls in flight
nmVars == <<net_monitoring, monitor_task, monitor_tasks, net_loading,
            net_stopping>>

vars == <<fmVars, pmVars, fwVars, wsVars, nmVars>>

\* ------------------------------------------------------------ path helpers
\* str.startswith
StartsWith(s, p) == Len(p) <= Len(s) /\ SubSeq(s, 1, Len(p)) = p

\* os.path.dirname for absolute paths
Dirname(p) ==
  LET slashes == {i \in 1..Len(p) : p[i] = "/"}
      last == CHOOSE i \in slashes : \A j \in slashes : j <= i
  IN IF last = 1 THEN <<"/">> ELSE SubSeq(p, 1, last - 1)

\* os.path.isdir on the modelled file system
IsDir(p) == p = DirPath

\* the watch start()/add_protected_path schedule for one protected path
WatchFor(path) ==
  IF IsDir(path) THEN [dir |-> path, recursive |-> TRUE]
  ELSE [dir |-> Dirname(path), recursive |-> FALSE]

\* the file events a watchdog watch reports
Covers(w, p) ==
  IF w.recursive THEN StartsWith(p, w.dir \o <<"/">>)
  ELSE Dirname(p) = w.dir

NoEvent == [type |-> "none", path |-> <<>>]

\* ---------------------------------------------------------- ORM helpers
\* a row of protected_files as the ORM returns it: the Enum column comes back
\* as a FileStatus member (database.py:86)
LoadRow(id, row) ==
  [id |-> id, path |-> row.path, status |-> FileStatusMember(row.status),
   access_attempts |-> row.access_attempts, lock_reason |-> row.lock_reason,
   alert_on_read |-> row.alert_on_read, alert_on_write |-> row.alert_on_write,
   alert_on_delete |-> row.alert_on_delete, auto_lock |-> row.auto_lock]

\* the label the Enum column stores for an assigned value: a FileStatus
\* member or the string naming one
StoreStatus(value) == value.v

\* select(ProtectedFile).where(ProtectedFile.path == p): scalar_one_or_none
SelectByPath(p) ==
  IF \E id \in FileIds : protected_files[id].path = p
  THEN LET id == CHOOSE i \in FileIds : protected_files[i].path = p
       IN LoadRow(id, protected_files[id])
  ELSE None

WarningAlert == [type |-> "file", severity |-> "warning"]
CriticalAlert == [type |-> "file", severity |-> "critical"]
AlertMessage(a) == [type |-> "new_alert", severity |-> a.severity]
FileEventMessage == [type |-> "file_event", severity |-> "none"]

AddRow(bag, row) == bag (+) SetToBag({row})

\* positions of a consumer task inside _handle_file_event
Handling == {"get", "update", "alert", "alert_pub", "lock", "lock_alert",
             "lock_pub", "event_pub"}

\* ------------------------------------------------------------ FileMonitor
\* mutant: the alert_on_read flag also triggers an alert
ShouldAlert_ReadFlag(event_type, protected_file) ==
  \/ event_type = "modified" /\ protected_file.alert_on_write
  \/ event_type \in {"created", "deleted"} /\ protected_file.alert_on_delete
  \/ event_type = "moved"
       /\ (protected_file.alert_on_write \/ protected_file.alert_on_read)

\* file_monitor.py:153-160
ShouldAlert(event_type, protected_file) ==
  \/ event_type = "modified" /\ protected_file.alert_on_write
  \/ event_type \in {"created", "deleted"} /\ protected_file.alert_on_delete
  \/ event_type = "moved" /\ protected_file.alert_on_write

\* file_monitor.py:166, evaluated on the object _get_protected_file returned
AutoLockDue(protected_file) ==
  protected_file.auto_lock /\ protected_file.access_attempts > AutoLockThreshold

\* where _handle_file_event suspends next, once the warning alert is settled
AfterAlert(protected_file) ==
  IF AutoLockDue(protected_file) THEN "lock" ELSE "event_pub"

\* where _handle_file_event suspends next, once the counter is written
AfterUpdate(event_type, protected_file) ==
  IF ShouldAlert(event_type, protected_file) THEN "alert"
  ELSE AfterAlert(protected_file)

\* FileMonitor.start up to `await self._load_protected_files()`
StartBegin ==
  /\ startPc = "idle"
  /\ ~monitoring
  /\ \E t \in TaskIds :
       /\ tasks[t] = "unborn"
       /\ \A u \in TaskIds : u < t => tasks[u] # "unborn"
       /\ tasks' = [tasks EXCEPT ![t] = "loop"]
       /\ processing_task' = t
  /\ monitoring' = TRUE
  /\ event_loop' = TRUE
  /\ startPc' = "loading"
  /\ UNCHANGED <<pmVars, fwVars, wsVars, nmVars, handled, failed, observer, protected_paths, event_queue, observers, watches,
                 cur, pf, pending, stopPc, protected_files, alerts,
                 broadcasts, emitted, h0>>

\* FileMonitor.start from the return of _load_protected_files to the end
StartFinish ==
  /\ startPc = "loading"
  /\ \E o \in ObserverIds :
       /\ observers[o] = "unborn"
       /\ \A u \in ObserverIds : u < o => observers[u] # "unborn"
       /\ LET loaded == {protected_files[id].path : id \in FileIds}
          IN /\ protected_paths' = loaded
             /\ watches' = [watches EXCEPT ![o] = {WatchFor(p) : p \in loaded}]
       /\ observers' = [observers EXCEPT ![o] = "alive"]
       /\ observer' = o
  /\ startPc' = "idle"
  /\ UNCHANGED <<pmVars, fwVars, wsVars, nmVars, handled, failed, monitoring, event_queue, event_loop, processing_task, tasks,
                 cur, pf, pending, stopPc, protected_files, alerts,
                 broadcasts, emitted, h0>>

\* Task.cancel(): CancelledError is thrown into the task at its current await
Cancel(pc) == IF pc \in {"unborn", "done"} THEN pc ELSE "cancelled"

\* mutant: stop() neither cancels nor awaits the consumer task
StopBegin_NoCancel ==
  /\ stopPc = "idle"
  /\ monitoring' = FALSE
  /\ observers' = IF observer # 0 THEN [observers EXCEPT ![observer] = "stopped"]
                  ELSE observers
  /\ UNCHANGED <<pmVars, fwVars, wsVars, nmVars, handled, failed, tasks, stopPc, observer, protected_paths, event_queue,
                 event_loop, processing_task, watches, cur, pf, pending,
                 startPc, protected_files, alerts, broadcasts, emitted, h0>>

\* mutant: stop() leaves the observer running
StopBegin_ObserverLeft ==
  /\ stopPc = "idle"
  /\ monitoring' = FALSE
  /\ IF processing_task # 0
     THEN /\ tasks' = [tasks EXCEPT ![processing_task] = Cancel(@)]
          /\ stopPc' = IF tasks[processing_task] = "done" THEN "idle"
                       ELSE "awaiting"
     ELSE UNCHANGED <<tasks, stopPc>>
  /\ UNCHANGED <<pmVars, fwVars, wsVars, nmVars, handled, failed, observers, observer, protected_paths, event_queue,
                 event_loop, processing_task, watches, cur, pf, pending,
                 startPc, protected_files, alerts, broadcasts, emitted, h0>>

\* FileMonitor.stop up to `await self.processing_task`; a task that is
\* already finished is awaited without suspending
StopBegin ==
  /\ stopPc = "idle"
  /\ monitoring' = FALSE
  /\ observers' = IF observer # 0 THEN [observers EXCEPT ![observer] = "stopped"]
                  ELSE observers
  /\ IF processing_task # 0
     THEN /\ tasks' = [tasks EXCEPT ![processing_task] = Cancel(@)]
          /\ stopPc' = IF tasks[processing_task] = "done" THEN "idle"
                       ELSE "awaiting"
     ELSE UNCHANGED <<tasks, stopPc>>
  /\ UNCHANGED <<pmVars, fwVars, wsVars, nmVars, handled, failed, observer, protected_paths, event_queue, event_loop,
                 processing_task, watches, cur, pf, pending, startPc,
                 protected_files, alerts, broadcasts, emitted, h0>>

\* FileMonitor.stop resumes when the awaited task has finished
StopReturn ==
  /\ stopPc = "awaiting"
  /\ tasks[processing_task] = "done"
  /\ stopPc' = "idle"
  /\ UNCHANGED <<pmVars, fwVars, wsVars, nmVars, handled, failed, monitoring, observer, protected_paths, event_queue,
                 event_loop, processing_task, observers, watches, tasks, cur,
                 pf, pending, startPc, protected_files, alerts, broadcasts,
                 emitted, h0>>

\* the members of self.protected_paths an event on file_path concerns: the
\* path itself and the directories above it
Attributable(file_path) ==
  {p \in protected_paths :
     p = file_path \/ StartsWith(file_path, p \o <<"/">>)}

\* the observer thread that reports an event on file_path
Reporter(file_path) ==
  CHOOSE o \in ObserverIds :
    observers[o] = "alive" /\ \E w \in watches[o] : Covers(w, file_path)

\* FileEventHandler.on_* -> _queue_file_event, on the observer thread
QueueFileEvent(event_type, file_path) ==
  /\ \E o \in ObserverIds :
       observers[o] = "alive" /\ \E w \in watches[o] : Covers(w, file_path)
  /\ Len(pending) + Len(event_queue) < MaxQueue
  /\ emitted' = emitted + 1
  /\ pending' = IF event_loop
                THEN Append(pending, [type |-> event_type, path |-> file_path,
                                      n |-> emitted + 1,
                                      known |-> Attributable(file_path),
                                      by |-> Reporter(file_path)])
                ELSE pending
  /\ UNCHANGED <<pmVars, fwVars, wsVars, nmVars, handled, failed, monitoring, observer, protected_paths, event_queue,
                 event_loop, processing_task, observers, watches, tasks, cur,
                 pf, startPc, stopPc, protected_files, alerts, broadcasts, h0>>

\* the event loop runs the scheduled self.event_queue.put(...)
PutEvent ==
  /\ pending # <<>>
  /\ event_queue' = Append(event_queue, Head(pending))
  /\ pending' = Tail(pending)
  /\ UNCHANGED <<pmVars, fwVars, wsVars, nmVars, handled, failed, monitoring, observer, protected_paths, event_loop,
                 processing_task, observers, watches, tasks, cur, pf, startPc,
                 stopPc, protected_files, alerts, broadcasts, emitted, h0>>

taskFrame == <<pmVars, fwVars, wsVars, nmVars, handled, failed, monitoring, observer, protected_paths, event_loop,
               processing_task, observers, watches, pending, startPc, stopPc,
               emitted>>

\* what Dequeue and a failing step leave alone besides the tables
dequeueFrame == <<pmVars, fwVars, wsVars, nmVars, monitoring, observer, protected_paths,
                  event_loop, processing_task, observers, watches, pending,
                  startPc, stopPc, emitted>>

\* _process_events: `while self.monitoring`
LoopCheck(t) ==
  /\ tasks[t] = "loop"
  /\ tasks' = [tasks EXCEPT ![t] = IF monitoring THEN "wait" ELSE "done"]
  /\ UNCHANGED <<taskFrame, event_queue, cur, pf, protected_files, alerts,
                 broadcasts, h0>>

\* _process_events: wait_for(self.event_queue.get(), 1.0) times out
Timeout(t) ==
  /\ tasks[t] = "wait"
  /\ event_queue = <<>>
  /\ tasks' = [tasks EXCEPT ![t] = "loop"]
  /\ UNCHANGED <<taskFrame, event_queue, cur, pf, protected_files, alerts,
                 broadcasts, h0>>

\* mutant: the queue hands out the event put last
Dequeue_Lifo(t) ==
  /\ tasks[t] = "wait"
  /\ event_queue # <<>>
  /\ cur' = [cur EXCEPT ![t] = event_queue[Len(event_queue)]]
  /\ event_queue' = SubSeq(event_queue, 1, Len(event_queue) - 1)
  /\ tasks' = [tasks EXCEPT ![t] = "get"]
  /\ h0' = [h0 EXCEPT ![t] = [protected_files |-> protected_files,
                              alerts |-> alerts, broadcasts |-> broadcasts]]
  /\ handled' = Append(handled, event_queue[Len(event_queue)].n)
  /\ UNCHANGED <<dequeueFrame, failed, pf, protected_files, alerts, broadcasts>>

\* _process_events: wait_for(self.event_queue.get(), 1.0) returns an event
Dequeue(t) ==
  /\ tasks[t] = "wait"
  /\ event_queue # <<>>
  /\ cur' = [cur EXCEPT ![t] = Head(event_queue)]
  /\ event_queue' = Tail(event_queue)
  /\ tasks' = [tasks EXCEPT ![t] = "get"]
  /\ h0' = [h0 EXCEPT ![t] = [protected_files |-> protected_files,
                              alerts |-> alerts, broadcasts |-> broadcasts]]
  /\ handled' = Append(handled, Head(event_queue).n)
  /\ UNCHANGED <<dequeueFrame, failed, pf, protected_files, alerts, broadcasts>>

\* the records _get_protected_file may return for a path
\* mutant: only the exact path is looked up
GetProtectedFile_ExactOnly(file_path) == {SelectByPath(file_path)}

GetProtectedFile(file_path) ==
  IF SelectByPath(file_path) # None THEN {SelectByPath(file_path)}
  ELSE IF \E d \in protected_paths : StartsWith(file_path, d \o <<"/">>)
       THEN {SelectByPath(d) :
               d \in {e \in protected_paths : StartsWith(file_path, e \o <<"/">>)}}
       ELSE {None}

\* _handle_file_event: `await self._get_protected_file(file_path)`
HandleGet(t) ==
  /\ tasks[t] = "get"
  /\ \E r \in GetProtectedFile(cur[t].path) :
       IF r = None
       THEN /\ tasks' = [tasks EXCEPT ![t] = "loop"]
            /\ cur' = [cur EXCEPT ![t] = NoEvent]
            /\ pf' = pf
       ELSE /\ tasks' = [tasks EXCEPT ![t] = "update"]
            /\ pf' = [pf EXCEPT ![t] = r]
            /\ cur' = cur
  /\ UNCHANGED <<taskFrame, event_queue, protected_files, alerts, broadcasts,
                 h0>>

\* mutant: the incremented counter is never committed
UpdateAccessAttempts_NoCommit(file_id) == protected_files

\* _update_access_attempts(file_id), in a session of its own
UpdateAccessAttempts(file_id) ==
  IF file_id \in FileIds
  THEN [protected_files EXCEPT ![file_id].access_attempts = @ + 1]
  ELSE protected_files

\* _handle_file_event: `await self._update_access_attempts(...)`
HandleUpdate(t) ==
  /\ tasks[t] = "update"
  /\ protected_files' = UpdateAccessAttempts(pf[t].id)
  /\ tasks' = [tasks EXCEPT ![t] = AfterUpdate(cur[t].type, pf[t])]
  /\ UNCHANGED <<taskFrame, event_queue, cur, pf, alerts, broadcasts, h0>>

\* _create_file_alert: session.add(alert); await session.commit()
HandleAlert(t) ==
  /\ tasks[t] = "alert"
  /\ alerts' = AddRow(alerts, WarningAlert)
  /\ tasks' = [tasks EXCEPT ![t] = "alert_pub"]
  /\ UNCHANGED <<taskFrame, event_queue, cur, pf, protected_files, broadcasts,
                 h0>>

\* _create_file_alert: await self.websocket_manager.broadcast_alert(...)
HandleAlertPub(t) ==
  /\ tasks[t] = "alert_pub"
  /\ broadcasts' = AddRow(broadcasts, AlertMessage(WarningAlert))
  /\ tasks' = [tasks EXCEPT ![t] = AfterAlert(pf[t])]
  /\ UNCHANGED <<taskFrame, event_queue, cur, pf, protected_files, alerts, h0>>

\* _auto_lock_file: the guard of line 265 on the freshly selected record
LockGuard(protected_file) ==
  protected_file # None /\ protected_file.status # PyStr("locked")

\* mutant: locking starts the counter afresh
LockRow_ResetsCounter(row, reason) ==
  [row EXCEPT !.status = StoreStatus(PyStr("locked")), !.lock_reason = reason,
              !.access_attempts = 0]

\* _auto_lock_file: the row after lines 266-268
LockRow(row, reason) ==
  [row EXCEPT !.status = StoreStatus(PyStr("locked")), !.lock_reason = reason]

\* _auto_lock_file: select the record, test it, write status and lock_reason
HandleLock(t) ==
  /\ tasks[t] = "lock"
  /\ LET id == pf[t].id
         fresh == LoadRow(id, protected_files[id])
     IN IF LockGuard(fresh)
        THEN /\ protected_files' =
                  [protected_files EXCEPT
                     ![id] = LockRow(@, "Multiple suspicious access attempts")]
             /\ tasks' = [tasks EXCEPT ![t] = "lock_alert"]
        ELSE /\ protected_files' = protected_files
             /\ tasks' = [tasks EXCEPT ![t] = "event_pub"]
  /\ UNCHANGED <<taskFrame, event_queue, cur, pf, alerts, broadcasts, h0>>

\* _auto_lock_file: session.add(critical alert); await session.commit()
HandleLockAlert(t) ==
  /\ tasks[t] = "lock_alert"
  /\ alerts' = AddRow(alerts, CriticalAlert)
  /\ tasks' = [tasks EXCEPT ![t] = "lock_pub"]
  /\ UNCHANGED <<taskFrame, event_queue, cur, pf, protected_files, broadcasts,
                 h0>>

\* _auto_lock_file: await self.websocket_manager.broadcast_alert(...)
HandleLockPub(t) ==
  /\ tasks[t] = "lock_pub"
  /\ broadcasts' = AddRow(broadcasts, AlertMessage(CriticalAlert))
  /\ tasks' = [tasks EXCEPT ![t] = "event_pub"]
  /\ UNCHANGED <<taskFrame, event_queue, cur, pf, protected_files, alerts, h0>>

\* _handle_file_event: await self.websocket_manager.broadcast_file_event(...)
HandleEventPub(t) ==
  /\ tasks[t] = "event_pub"
  /\ broadcasts' = AddRow(broadcasts, FileEventMessage)
  /\ tasks' = [tasks EXCEPT ![t] = "handled"]
  /\ UNCHANGED <<taskFrame, event_queue, cur, pf, protected_files, alerts, h0>>

\* _handle_file_event returns to _process_events
HandleReturn(t) ==
  /\ tasks[t] = "handled"
  /\ tasks' = [tasks EXCEPT ![t] = "loop"]
  /\ cur' = [cur EXCEPT ![t] = NoEvent]
  /\ pf' = [pf EXCEPT ![t] = None]
  /\ UNCHANGED <<taskFrame, event_queue, protected_files, alerts, broadcasts,
                 h0>>

\* where _handle_file_event goes on when the await it is suspended in
\* raises: _get_protected_file returns None (204-206), the other helpers log
\* and return (222-223, 253-254, 295-296), and a failing
\* broadcast_file_event is caught by the handler itself (178-179)
\* mutant: the exception leaves _process_events
AfterFailure_Escapes(pc, event_type, protected_file) == "done"

AfterFailure(pc, event_type, protected_file) ==
  CASE pc = "get" -> "loop"
    [] pc = "update" -> AfterUpdate(event_type, protected_file)
    [] pc \in {"alert", "alert_pub"} -> AfterAlert(protected_file)
    [] pc \in {"lock", "lock_alert", "lock_pub"} -> "event_pub"
    [] pc = "event_pub" -> "handled"

\* a lookup, counter write, alert write, lock write or publish raises
HandleFails(t) ==
  /\ tasks[t] \in Handling
  /\ failed' = failed \cup {cur[t].n}
  /\ tasks' = [tasks EXCEPT ![t] = AfterFailure(@, cur[t].type, pf[t])]
  /\ cur' = IF tasks[t] = "get" THEN [cur EXCEPT ![t] = NoEvent] ELSE cur
  /\ UNCHANGED <<dequeueFrame, handled, event_queue, pf, protected_files,
                 alerts, broadcasts, h0>>

\* _process_events: `except asyncio.CancelledError: break`
TaskCancelled(t) ==
  /\ tasks[t] = "cancelled"
  /\ tasks' = [tasks EXCEPT ![t] = "done"]
  /\ UNCHANGED <<taskFrame, event_queue, cur, pf, protected_files, alerts,
                 broadcasts, h0>>

\* a path that does not exist on the modelled file system
MissingPath == <<"/", "m">>

\* os.path.exists on the modelled file system
Exists(p) == p # MissingPath

\* the paths the API adds and removes
ManagedPaths == {FilePath, SiblingPath, ChildPath, MissingPath}

\* FileMonitor.add_protected_path; Observer.schedule records the watch on
\* the observer object whatever its thread's state
AddProtectedPath(path) ==
  /\ protected_paths' = protected_paths \cup {path}
  /\ watches' = IF observer # 0 /\ Exists(path)
                THEN [watches EXCEPT ![observer] = @ \cup {WatchFor(path)}]
                ELSE watches
  /\ UNCHANGED <<pmVars, fwVars, wsVars, nmVars, handled, failed, monitoring, observer,
                 event_queue, event_loop, processing_task, observers, tasks,
                 cur, pf, pending, startPc, stopPc, protected_files, alerts,
                 broadcasts, emitted, h0>>

\* FileMonitor.remove_protected_path
RemoveProtectedPath(path) ==
  /\ protected_paths' = protected_paths \ {path}
  /\ UNCHANGED <<pmVars, fwVars, wsVars, nmVars, handled, failed, monitoring, observer,
                 event_queue, event_loop, processing_task, observers, watches,
                 tasks, cur, pf, pending, startPc, stopPc, protected_files,
                 alerts, broadcasts, emitted, h0>>

\* mutant: the unlock starts the counter afresh
UnlockFile_ResetsCounter(id) ==
  /\ protected_files' = [protected_files EXCEPT
                           ![id].status = StoreStatus(FileStatusMember("authorized")),
                           ![id].lock_reason = "None",
                           ![id].access_attempts = 0]
  /\ UNCHANGED <<pmVars, fwVars, wsVars, nmVars, handled, failed, monitoring, observer, protected_paths, event_queue,
                 event_loop, processing_task, observers, watches, tasks, cur,
                 pf, pending, startPc, stopPc, alerts, broadcasts, emitted, h0>>

\* routers/files.py unlock_file: the external administrative unlock
UnlockFile(id) ==
  /\ protected_files' = [protected_files EXCEPT
                           ![id].status = StoreStatus(FileStatusMember("authorized")),
                           ![id].lock_reason = "None"]
  /\ UNCHANGED <<pmVars, fwVars, wsVars, nmVars, handled, failed, monitoring, observer, protected_paths, event_queue,
                 event_loop, processing_task, observers, watches, tasks, cur,
                 pf, pending, startPc, stopPc, alerts, broadcasts, emitted, h0>>

\* a row of protected_files as add_protected_file creates it, after
\* `attempts` attributed events
NewRow(path, flags, attempts) ==
  [path |-> path, status |-> StoreStatus(FileStatusMember("protected")),
   access_attempts |-> attempts, lock_reason |-> "None",
   alert_on_read |-> flags.alert_on_read,
   alert_on_write |-> flags.alert_on_write,
   alert_on_delete |-> flags.alert_on_delete, auto_lock |-> flags.auto_lock]

AllFlags == [alert_on_read : BOOLEAN, alert_on_write : BOOLEAN,
             alert_on_delete : BOOLEAN, auto_lock : BOOLEAN]

\* the column defaults of database.py:90-93
DefaultFlags == [alert_on_read |-> TRUE, alert_on_write |-> TRUE,
                 alert_on_delete |-> TRUE, auto_lock |-> FALSE]

\* FileMonitor.__init__, with the protected_files table holding `rows`
InitFileMonitor(rows) ==
  /\ monitoring = FALSE
  /\ observer = 0
  /\ protected_paths = {}
  /\ event_queue = <<>>
  /\ event_loop = FALSE
  /\ processing_task = 0
  /\ observers = [o \in ObserverIds |-> "unborn"]
  /\ watches = [o \in ObserverIds |-> {}]
  /\ tasks = [t \in TaskIds |-> "unborn"]
  /\ cur = [t \in TaskIds |-> NoEvent]
  /\ pf = [t \in TaskIds |-> None]
  /\ pending = <<>>
  /\ startPc = "idle"
  /\ stopPc = "idle"
  /\ protected_files = rows
  /\ alerts = EmptyBag
  /\ broadcasts = EmptyBag
  /\ emitted = 0
  /\ handled = <<>>
  /\ failed = {}
  /\ h0 = [t \in TaskIds |->
             [protected_files |-> rows, alerts |-> EmptyBag,
              broadcasts |-> EmptyBag]]

\* =========================================================== PacketMonitor
\* ---- strings of pcap.py, kept as sequences of characters
DigitChars == <<"0", "1", "2", "3", "4", "5", "6", "7", "8", "9">>
UpperChars == <<"A", "B", "C", "D", "E", "F", "G", "H", "I", "J", "K", "L", "M",
                "N", "O", "P", "Q", "R", "S", "T", "U", "V", "W", "X", "Y", "Z">>
LowerChars == <<"a", "b", "c", "d", "e", "f", "g", "h", "i", "j", "k", "l", "m",
                "n", "o", "p", "q", "r", "s", "t", "u", "v", "w", "x", "y", "z">>
Range(f) == {f[i] : i \in DOMAIN f}

\* regex class \d
IsDigit(c) == c \in Range(DigitChars)
\* regex class \w
IsWordChar(c) ==
  c \in Range(DigitChars) \cup Range(UpperChars) \cup Range(LowerChars) \cup {"_"}
\* regex \d+ and \w+ against a whole string
IsDigits(s) == s # <<>> /\ \A i \in 1..Len(s) : IsDigit(s[i])
IsWord(s) == s # <<>> /\ \A i \in 1..Len(s) : IsWordChar(s[i])

DigitVal(c) == (CHOOSE i \in 1..10 : DigitChars[i] = c) - 1

\* int() of a string of digits
RECURSIVE ToInt(_)
ToInt(s) ==
  IF s = <<>> THEN 0
  ELSE ToInt(SubSeq(s, 1, Len(s) - 1)) * 10 + DigitVal(s[Len(s)])

\* str.lower
LowerChar(c) ==
  IF c \in Range(UpperChars)
  THEN LowerChars[CHOOSE i \in 1..26 : UpperChars[i] = c]
  ELSE c
\* mutant: the string is compared as written
Lower_AsWritten(s) == s

Lower(s) == [i \in 1..Len(s) |-> LowerChar(s[i])]

NoMatch == [port |-> -1, proto |-> <<>>]
NoPort == -1      \* the port of a packet that has none (Python None)

\* re.match(r'^(\d+)(/(\w+))?$', s): groups 1 and 3; proto <<>> is None
PortPattern(s) ==
  IF IsDigits(s) THEN [port |-> ToInt(s), proto |-> <<>>]
  ELSE IF \E k \in 1..Len(s) : /\ s[k] = "/"
                               /\ IsDigits(SubSeq(s, 1, k - 1))
                               /\ IsWord(SubSeq(s, k + 1, Len(s)))
       THEN LET k == CHOOSE j \in 1..Len(s) : /\ s[j] = "/"
                                              /\ IsDigits(SubSeq(s, 1, j - 1))
                                              /\ IsWord(SubSeq(s, j + 1, Len(s)))
            IN [port |-> ToInt(SubSeq(s, 1, k - 1)),
                proto |-> SubSeq(s, k + 1, Len(s))]
       ELSE NoMatch

\* pcap.py:177-184 (and 186-193): the port pattern of one rule field hits
PortHit(field, protocol, dst_port) ==
  LET m == PortPattern(field)
  IN /\ m # NoMatch
     /\ m.port = dst_port
     /\ (m.proto = <<>> \/ Lower(m.proto) = Lower(protocol))

\* a whole string of the form \d+\.\d+\.\d+\.\d+
IsIpLiteral(t) ==
  LET dots == {i \in 1..Len(t) : t[i] = "."}
  IN /\ Cardinality(dots) = 3
     /\ \A i \in 1..Len(t) : i \notin dots => IsDigit(t[i])
     /\ 1 \notin dots /\ Len(t) \notin dots
     /\ \A i \in dots : i + 1 \notin dots

\* an IP literal starts at position i of s
IpStartsAt(s, i) == \E j \in i..Len(s) : IsIpLiteral(SubSeq(s, i, j))

\* re.search(r'(\d+\.\d+\.\d+\.\d+)', s): group 1 (the leftmost match, its
\* last \d+ taking all the digits it can), <<>> when there is none
IpSearch(s) ==
  IF \A i \in 1..Len(s) : ~IpStartsAt(s, i) THEN <<>>
  ELSE LET i == CHOOSE a \in 1..Len(s) :
                  IpStartsAt(s, a) /\ \A b \in 1..(a - 1) : ~IpStartsAt(s, b)
           j == CHOOSE a \in i..Len(s) :
                  /\ IsIpLiteral(SubSeq(s, i, a))
                  /\ \A b \in (a + 1)..Len(s) : ~IsIpLiteral(SubSeq(s, i, b))
       IN SubSeq(s, i, j)

Anywhere == <<"a", "n", "y", "w", "h", "e", "r", "e">>
AnyWord == <<"a", "n", "y">>
Tcp == <<"t", "c", "p">>
Udp == <<"u", "d", "p">>

\* pcap.py:197-204 protocol_ports
ProtocolPorts ==
  {[name |-> <<"s", "s", "h">>, port |-> 22, proto |-> Tcp],
   [name |-> <<"h", "t", "t", "p">>, port |-> 80, proto |-> Tcp],
   [name |-> <<"h", "t", "t", "p", "s">>, port |-> 443, proto |-> Tcp],
   [name |-> <<"f", "t", "p">>, port |-> 21, proto |-> Tcp],
   [name |-> <<"s", "m", "t", "p">>, port |-> 25, proto |-> Tcp],
   [name |-> <<"d", "n", "s">>, port |-> 53, proto |-> Udp]}

\* `name in protocol_ports`
InProtocolPorts(name) == \E e \in ProtocolPorts : e.name = name
\* protocol_ports[name], for a name that is a key
ProtocolPort(name) == CHOOSE e \in ProtocolPorts : e.name = name

\* PacketMonitor.is_outgoing
IsOutgoing(ips, src_ip, dst_ip) == src_ip \in ips

\* pcap.py:224-227
ActionVerdict(rule_action) == IF rule_action = "ALLOW" THEN "allowed" ELSE "denied"

\* one iteration of the loop of check_packet_status (pcap.py:158-245):
\* "allowed" or "denied" when the iteration returns, "KeyError" when line 207
\* raises, "next" when the loop goes on to the next rule
RuleOutcome(rule, is_outgoing, protocol, src_ip, dst_port) ==
  LET rule_text == Lower(rule.rule)
      rule_from == Lower(rule.from)
      rule_direction == Lower(rule.direction)
      skipped == /\ rule_direction # <<>>
                 /\ \/ is_outgoing /\ rule_direction = <<"i", "n">>
                    \/ ~is_outgoing /\ rule_direction = <<"o", "u", "t">>
      byPort == /\ dst_port \notin {NoPort, 0}
                /\ \/ PortHit(rule_text, protocol, dst_port)
                   \/ PortHit(rule_from, protocol, dst_port)
      named == ~byPort /\ (InProtocolPorts(rule_text) \/ InProtocolPorts(rule_from))
      raises == named /\ ~InProtocolPorts(rule_text)
      byName == /\ named
                /\ InProtocolPorts(rule_text)
                /\ dst_port = ProtocolPort(rule_text).port
                /\ Lower(protocol) = ProtocolPort(rule_text).proto
      matched == byPort \/ byName
      rule_ip == IpSearch(rule_from)
      \* lines 212-220
      matched1 == IF /\ matched \/ rule_text \in {Anywhere, AnyWord}
                     /\ rule_from \notin {Anywhere, AnyWord}
                     /\ rule_ip # <<>>
                     /\ src_ip # rule_ip
                  THEN FALSE ELSE matched
      returns1 == (matched \/ rule_text \in {Anywhere, AnyWord}) /\ matched1
      \* lines 230-238
      matched2 == IF /\ matched1 \/ rule_from \in {Anywhere, AnyWord}
                     /\ rule_text \notin {Anywhere, AnyWord}
                     /\ rule_ip # <<>>
                     /\ src_ip # rule_ip
                  THEN FALSE ELSE matched1
      returns2 == (matched1 \/ rule_from \in {Anywhere, AnyWord}) /\ matched2
  IN IF skipped THEN "next"
     ELSE IF raises THEN "KeyError"
     ELSE IF returns1 \/ returns2 THEN ActionVerdict(rule.action)
     ELSE "next"

\* pcap.py:247-253
DefaultPolicy(is_outgoing) == IF is_outgoing THEN "allowed" ELSE "denied"

\* PacketMonitor.check_packet_status with self.rules = rs, self.local_ips = ips
RECURSIVE CheckRules(_, _, _, _, _)
CheckRules(rs, is_outgoing, protocol, src_ip, dst_port) ==
  IF rs = <<>> THEN DefaultPolicy(is_outgoing)
  ELSE LET o == RuleOutcome(Head(rs), is_outgoing, protocol, src_ip, dst_port)
       IN IF o = "next"
          THEN CheckRules(Tail(rs), is_outgoing, protocol, src_ip, dst_port)
          ELSE o

CheckPacketStatus(rs, ips, protocol, src_ip, dst_ip, src_port, dst_port) ==
  CheckRules(rs, IsOutgoing(ips, src_ip, dst_ip), protocol, src_ip, dst_port)

\* ---- inputs of the classifier
LocalIp == <<"1", ".", "1", ".", "1", ".", "1">>
RemoteIp == <<"2", ".", "2", ".", "2", ".", "2">>

\* a rule as UFWManager.list_rules builds it (firewall.py:126-132)
Rule(rule, action, direction, from) ==
  [rule |-> rule, action |-> action, direction |-> direction, from |-> from]

PortSsh == <<"2", "2", "/", "t", "c", "p">>
AnywhereField == <<"A", "n", "y", "w", "h", "e", "r", "e">>
SshProfile == <<"S", "S", "H">>
DirIn == <<"I", "N">>
DirOut == <<"O", "U", "T">>
\* the source column of a rule bound to an outgoing interface
AnywhereOnLo ==
  <<"A", "n", "y", "w", "h", "e", "r", "e", " ", "o", "n", " ", "l", "o">>

\* the rule/from pairs list_rules gives for the status lines
\*   22/tcp ACTION Anywhere,  22/tcp ACTION 2.2.2.2,
\*   Anywhere ACTION 2.2.2.2, SSH ACTION Anywhere (fields swapped, line 123)
\* and, below, 22/tcp ACTION OUT Anywhere on lo
RuleFields ==
  {<<PortSsh, AnywhereField>>, <<PortSsh, RemoteIp>>,
   <<AnywhereField, RemoteIp>>, <<AnywhereField, SshProfile>>}

RuleUniverse ==
  {Rule(f[1], a, d, f[2]) :
     f \in RuleFields, a \in {"ALLOW", "DENY"}, d \in {<<>>, DirIn}}
  \cup {Rule(PortSsh, a, DirOut, AnywhereField) : a \in {"ALLOW", "DENY"}}
  \cup {Rule(PortSsh, "REJECT", <<>>, AnywhereField)}
  \cup {Rule(PortSsh, a, DirOut, AnywhereOnLo) : a \in {"ALLOW", "DENY"}}

RuleLists == UNION {[1..n -> RuleUniverse] : n \in 0..MaxRules}

LocalSets == {{LocalIp}, {LocalIp, RemoteIp}}

Packets ==
  [protocol : {<<"T", "C", "P">>, <<"U", "D", "P">>},
   src_ip : {LocalIp, RemoteIp}, dst_ip : {LocalIp},
   src_port : {NoPort}, dst_port : {NoPort, 0, 22, 80}]

\* ---- tcpdump output lines (pcap.py:255-335)
IsSpace(c) == c \in {" ", "\t", "\n"}

\* str.strip
Strip(s) ==
  LET solid == {i \in 1..Len(s) : ~IsSpace(s[i])}
  IN IF solid = {} THEN <<>>
     ELSE SubSeq(s, CHOOSE i \in solid : \A j \in solid : i <= j,
                 CHOOSE i \in solid : \A j \in solid : j <= i)

\* `sub in s`
Contains(s, sub) ==
  \E i \in 1..(Len(s) - Len(sub) + 1) : SubSeq(s, i, i + Len(sub) - 1) = sub

\* a whole string of the form \d+(\.\d+){n-1}
IsDotted(t, n) ==
  LET dots == {i \in 1..Len(t) : t[i] = "."}
  IN /\ t # <<>>
     /\ Cardinality(dots) = n - 1
     /\ \A i \in 1..Len(t) : i \notin dots => IsDigit(t[i])
     /\ 1 \notin dots /\ Len(t) \notin dots
     /\ \A i \in dots : i + 1 \notin dots

\* mutant: the timestamp is not looked for
HasTimestamp_Ignored(line) == TRUE

\* re.match(r'^(\d+\.\d+)\s+', line) succeeds
HasTimestamp(line) ==
  \E j \in 1..(Len(line) - 1) :
    IsDotted(SubSeq(line, 1, j), 2) /\ IsSpace(line[j + 1])

\* the text \d+(\.\d+){n-1} that ends, white space apart, just before the
\* ">" at position g, starting as far left as it can; <<>> if there is none
LeftOf(line, g, n) ==
  LET solid == {k \in 1..(g - 1) : ~IsSpace(line[k])}
  IN IF solid = {} THEN <<>>
     ELSE LET e == CHOOSE k \in solid : \A m \in solid : m <= k
              ks == {k \in 1..e : IsDotted(SubSeq(line, k, e), n)}
          IN IF ks = {} THEN <<>>
             ELSE SubSeq(line, CHOOSE k \in ks : \A m \in ks : k <= m, e)

\* the text \d+(\.\d+){n-1} that starts, white space apart, just after the
\* ">" at position g, reaching as far right as it can; <<>> if there is none
RightOf(line, g, n) ==
  LET solid == {k \in (g + 1)..Len(line) : ~IsSpace(line[k])}
  IN IF solid = {} THEN <<>>
     ELSE LET b == CHOOSE k \in solid : \A m \in solid : k <= m
              ks == {k \in b..Len(line) : IsDotted(SubSeq(line, b, k), n)}
          IN IF ks = {} THEN <<>>
             ELSE SubSeq(line, b, CHOOSE k \in ks : \A m \in ks : m <= k)

NoAddr == [src |-> <<>>, dst |-> <<>>]

\* re.search of the address pattern with n dotted numbers on either side of
\* ">" (5: address and port, line 286; 4: address only, line 296)
AddrSearch(line, n) ==
  LET gs == {g \in 1..Len(line) : /\ line[g] = ">"
                                  /\ LeftOf(line, g, n) # <<>>
                                  /\ RightOf(line, g, n) # <<>>}
  IN IF gs = {} THEN NoAddr
     ELSE LET g == CHOOSE k \in gs : \A m \in gs : k <= m
          IN [src |-> LeftOf(line, g, n), dst |-> RightOf(line, g, n)]

\* the last "." of an address-and-port text
LastDot(t) ==
  CHOOSE i \in 1..Len(t) : t[i] = "." /\ \A j \in (i + 1)..Len(t) : t[j] # "."
AddrPart(t) == SubSeq(t, 1, LastDot(t) - 1)
PortPart(t) == ToInt(SubSeq(t, LastDot(t) + 1, Len(t)))

\* pcap.py:274-282
ProtocolOf(line) ==
  IF Contains(line, <<" ", "T", "C", "P", " ">>)
       \/ Contains(Lower(line), <<".", "t", "c", "p">>)
  THEN <<"T", "C", "P">>
  ELSE IF Contains(line, <<" ", "U", "D", "P", " ">>)
            \/ Contains(Lower(line), <<".", "u", "d", "p">>)
  THEN <<"U", "D", "P">>
  ELSE IF Contains(line, <<" ", "I", "C", "M", "P", " ">>)
            \/ Contains(Lower(line), <<"i", "c", "m", "p">>)
  THEN <<"I", "C", "M", "P">>
  ELSE IF Contains(line, <<" ", "I", "P", " ">>) THEN <<"I", "P">>
  ELSE <<"U", "n", "k", "n", "o", "w", "n">>

\* parse_tcpdump_line returns None
NoInfo == [parsed |-> FALSE]

\* the arguments parse_tcpdump_line passes to check_packet_status
\* (lines 286-304); NoPacket when the line fails the patterns
PacketOf(line) ==
  IF ~HasTimestamp(line) THEN NoPacket
  ELSE LET ported == AddrSearch(line, 5)
           plain == AddrSearch(line, 4)
       IN IF ported # NoAddr
          THEN [protocol |-> ProtocolOf(line),
                src_ip |-> AddrPart(ported.src), dst_ip |-> AddrPart(ported.dst),
                src_port |-> PortPart(ported.src),
                dst_port |-> PortPart(ported.dst)]
          ELSE IF plain # NoAddr
          THEN [protocol |-> ProtocolOf(line),
                src_ip |-> plain.src, dst_ip |-> plain.dst,
                src_port |-> NoPort, dst_port |-> NoPort]
          ELSE NoPacket

\* the packet_info dict of pcap.py:320-331 (its timestamp and size fields
\* left out) for the packet pkt the patterns gave and the status
\* check_packet_status returned; NoInfo for None, which is also what
\* `except Exception` at line 333 returns
PacketInfo(ips, pkt, status) ==
  IF pkt = NoPacket \/ status = "KeyError" THEN NoInfo
  ELSE [parsed |-> TRUE, protocol |-> pkt.protocol,
        source |-> pkt.src_ip, destination |-> pkt.dst_ip,
        port |-> pkt.dst_port,
        direction |-> IF IsOutgoing(ips, pkt.src_ip, pkt.dst_ip)
                      THEN "outgoing" ELSE "incoming",
        status |-> status]

\* parse_tcpdump_line from line 312 on, with self.rules = rs and
\* self.local_ips = ips
InfoOf(rs, ips, pkt) ==
  PacketInfo(ips, pkt,
             CheckPacketStatus(rs, ips, pkt.protocol, pkt.src_ip,
                               pkt.dst_ip, pkt.src_port, pkt.dst_port))

\* PacketMonitor.parse_tcpdump_line
ParseTcpdumpLine(rs, ips, line) == InfoOf(rs, ips, PacketOf(line))

\* a TCP segment from the remote host to port 22:  1.5 IP 2.2.2.2.5 > 1.1.1.1.22: Flags [S], length 0
TcpLine ==
  <<"1", ".", "5", " ", "I", "P", " ", "2", ".", "2", ".", "2", ".",
    "2", ".", "5", " ", ">", " ", "1", ".", "1", ".", "1", ".", "1",
    ".", "2", "2", ":", " ", "F", "l", "a", "g", "s", " ", "[", "S",
    "]", ",", " ", "l", "e", "n", "g", "t", "h", " ", "0">>

\* an ICMP packet: addresses without ports:  1.5 IP 2.2.2.2 > 1.1.1.1: ICMP echo request, length 8
IcmpLine ==
  <<"1", ".", "5", " ", "I", "P", " ", "2", ".", "2", ".", "2", ".",
    "2", " ", ">", " ", "1", ".", "1", ".", "1", ".", "1", ":", " ",
    "I", "C", "M", "P", " ", "e", "c", "h", "o", " ", "r", "e", "q",
    "u", "e", "s", "t", ",", " ", "l", "e", "n", "g", "t", "h", " ",
    "8">>

\* no leading timestamp (a continuation line):  2.2.2.2.5 > 1.1.1.1.22: Flags [S], length 0
ContinuationLine ==
  <<"2", ".", "2", ".", "2", ".", "2", ".", "5", " ", ">", " ", "1",
    ".", "1", ".", "1", ".", "1", ".", "2", "2", ":", " ", "F", "l",
    "a", "g", "s", " ", "[", "S", "]", ",", " ", "l", "e", "n", "g",
    "t", "h", " ", "0">>

\* a timestamp but no src > dst pair:  1.5 ARP, Request who-has 1.1.1.1 tell 2.2.2.2
ArpLine ==
  <<"1", ".", "5", " ", "A", "R", "P", ",", " ", "R", "e", "q", "u",
    "e", "s", "t", " ", "w", "h", "o", "-", "h", "a", "s", " ", "1",
    ".", "1", ".", "1", ".", "1", " ", "t", "e", "l", "l", " ", "2",
    ".", "2", ".", "2", ".", "2">>

\* only white space:  (blank)
BlankLine ==
  <<" ", " ">>

\* what the capture subprocess may write
CaptureLines == {TcpLine, IcmpLine, ContinuationLine, ArpLine, BlankLine}
\* line.strip() and the packet the patterns give, for every such line
StrippedLines == [line \in CaptureLines |-> Strip(line)]
LinePackets == [line \in CaptureLines |-> PacketOf(Strip(line))]

\* the lines written while start() and stop() calls are followed
LifecycleLines == {TcpLine}

\* a call self.check_packet_status(...) as parse_tcpdump_line makes it
\* (pcap.py:316-318)
Classify(pkt) ==
  /\ verdict = "none"
  /\ packet' = pkt
  /\ verdict' = CheckPacketStatus(rules, local_ips, pkt.protocol, pkt.src_ip,
                                  pkt.dst_ip, pkt.src_port, pkt.dst_port)
  /\ UNCHANGED <<fmVars, fwVars, wsVars, nmVars, pmAux, capIO, rules, load_failed, running, local_ips, thread, captures>>

\* ---- capture lifecycle
\* a capture thread that has not finished
Capturing(c) == captures[c] \in {"setup", "reading", "line"}
\* a capture thread with its tcpdump subprocess
Reading(c) == captures[c] \in {"reading", "line"}

\* mutant: start() without the test of self.running
PMStart_NoCheck ==
  /\ \E c \in CaptureIds :
       /\ captures[c] = "unborn"
       /\ \A u \in CaptureIds : u < c => captures[u] # "unborn"
       /\ captures' = [captures EXCEPT ![c] = "setup"]
       /\ thread' = c
  /\ running' = TRUE
  /\ UNCHANGED <<fmVars, fwVars, wsVars, nmVars, pmAux, capIO, rules, load_failed, local_ips, packet, verdict>>

\* PacketMonitor.start: a call while running prints the warning and returns
\* at line 93
PMStart ==
  IF running
  THEN /\ warned' = TRUE
       /\ UNCHANGED <<fmVars, fwVars, wsVars, nmVars, loop, capIO, rules, load_failed, running, local_ips, thread,
                      captures, packet, verdict>>
  ELSE /\ \E c \in CaptureIds :
            /\ captures[c] = "unborn"
            /\ \A u \in CaptureIds : u < c => captures[u] # "unborn"
            /\ captures' = [captures EXCEPT ![c] = "setup"]
            /\ thread' = c
       /\ running' = TRUE
       /\ UNCHANGED <<fmVars, fwVars, wsVars, nmVars, pmAux, capIO, rules, load_failed, local_ips, packet, verdict>>

\* PacketMonitor.stop
PMStop ==
  /\ running' = FALSE
  /\ UNCHANGED <<fmVars, fwVars, wsVars, nmVars, pmAux, capIO, rules, load_failed, local_ips, thread, captures, packet, verdict>>

\* what `ip -4 addr show` may report when a capture starts
HostReports == {{LocalIp}, {LocalIp, RemoteIp}}

\* what load_firewall_rules may leave in self.rules: the rules listed, or
\* the empty list when list_rules fails
LoadedRules == {<<>>, <<Rule(PortSsh, "ALLOW", DirIn, AnywhereField)>>}

\* the calls of self.ufw.list_rules() a capture may meet: it raises or not,
\* and the firewall holds one of the rule lists
RuleLoads == [raised : BOOLEAN, held : LoadedRules]

\* mutant: the rules the firewall holds are used although the load failed
LoadFirewallRules_Held(load) == load.held

\* PacketMonitor.load_firewall_rules: what it leaves in self.rules
LoadFirewallRules(load) == IF load.raised THEN <<>> ELSE load.held

\* _capture_loop up to the read loop: get_local_ips, load_firewall_rules,
\* Popen succeeds
CaptureSetup(c) ==
  /\ captures[c] = "setup"
  /\ \E reported \in HostReports : local_ips' = local_ips \cup reported
  /\ \E load \in RuleLoads : /\ rules' = LoadFirewallRules(load)
                              /\ load_failed' = load.raised
  /\ captures' = [captures EXCEPT ![c] = "reading"]
  /\ UNCHANGED <<fmVars, fwVars, wsVars, nmVars, pmAux, capIO, running, thread, packet, verdict>>

\* _capture_loop: Popen raises; `except` prints, `finally` clears running
CaptureLaunchFails(c) ==
  /\ captures[c] = "setup"
  /\ \E reported \in HostReports : local_ips' = local_ips \cup reported
  /\ \E load \in RuleLoads : /\ rules' = LoadFirewallRules(load)
                              /\ load_failed' = load.raised
  /\ captures' = [captures EXCEPT ![c] = "exited"]
  /\ running' = FALSE
  /\ UNCHANGED <<fmVars, fwVars, wsVars, nmVars, pmAux, capIO, thread, packet, verdict>>

\* the capture subprocess writes a line to its output: the thread blocked in
\* `for line in process.stdout` gets it
TcpdumpWrites(c, line) ==
  /\ captures[c] = "reading"
  /\ Len(sent) + Cardinality({u \in CaptureIds : captures[u] = "line"}) < MaxSent
  /\ captures' = [captures EXCEPT ![c] = "line"]
  /\ lines' = [lines EXCEPT ![c] = line]
  /\ UNCHANGED <<fmVars, fwVars, wsVars, nmVars, pmAux, sent, rules, load_failed, running, local_ips, thread,
                 packet, verdict>>

\* _capture_loop, lines 418-427, for a line read while self.running is set:
\* a blank line is skipped; otherwise the line is parsed, and a parsed
\* packet is handed to self.loop - run_coroutine_threadsafe raises
\* RuntimeError on a closed loop, which ends the loop at `except Exception`
CaptureLine(c) ==
  /\ captures[c] = "line"
  /\ running
  /\ \E info \in {InfoOf(rules, local_ips, LinePackets[lines[c]])} :
       LET submits == StrippedLines[lines[c]] # <<>> /\ info.parsed
           raised == submits /\ loop = "closed"
       IN /\ sent' = IF submits /\ loop = "open" THEN Append(sent, info)
                                                   ELSE sent
          /\ captures' = [captures EXCEPT ![c] = IF raised THEN "exited"
                                                           ELSE "reading"]
          /\ running' = IF raised THEN FALSE ELSE running
  /\ UNCHANGED <<fmVars, fwVars, wsVars, nmVars, pmAux, lines, rules, load_failed, local_ips, thread, packet,
                 verdict>>

\* _capture_loop: a line was read while self.running is clear: terminate,
\* break, wait, `finally` clears running, the thread exits
CaptureStopSeen(c) ==
  /\ captures[c] = "line"
  /\ ~running
  /\ captures' = [captures EXCEPT ![c] = "exited"]
  /\ running' = FALSE
  /\ UNCHANGED <<fmVars, fwVars, wsVars, nmVars, pmAux, capIO, rules, load_failed, local_ips, thread, packet,
                 verdict>>

\* the event loop self.loop refers to is closed
LoopCloses ==
  /\ loop = "open"
  /\ loop' = "closed"
  /\ UNCHANGED <<fmVars, fwVars, wsVars, nmVars, warned, capIO, rules, load_failed, running, local_ips, thread,
                 captures, packet, verdict>>

\* _capture_loop: the subprocess closes its output (packet_count reached or
\* tcpdump ended); wait, `finally` clears running, the thread exits
CaptureEnds(c) ==
  /\ captures[c] = "reading"
  /\ captures' = [captures EXCEPT ![c] = "exited"]
  /\ running' = FALSE
  /\ UNCHANGED <<fmVars, fwVars, wsVars, nmVars, pmAux, capIO, rules, load_failed, local_ips, thread, packet, verdict>>

\* PacketMonitor.__init__
\* ============================================================== UFWManager
\* ---- the lines of `ufw status numbered` (firewall.py:83-134)
\* the first position from i on that holds no white space, Len(s) + 1 if
\* there is none
FirstSolid(s, i) ==
  LET solid == {k \in i..Len(s) : ~IsSpace(s[k])}
  IN IF solid = {} THEN Len(s) + 1
     ELSE CHOOSE k \in solid : \A m \in solid : k <= m

\* the text w stands at position i of s
WordAt(s, i, w) ==
  i + Len(w) - 1 <= Len(s) /\ SubSeq(s, i, i + Len(w) - 1) = w

\* (ALLOW|DENY|REJECT) and (IN|OUT) of the pattern (line 96)
ActionWords ==
  {<<"A", "L", "L", "O", "W">>, <<"D", "E", "N", "Y">>,
   <<"R", "E", "J", "E", "C", "T">>}
DirectionWords == {DirIn, DirOut}

\* the action of a rule, as the classifier compares it
ActionName(w) ==
  IF w = <<"A", "L", "L", "O", "W">> THEN "ALLOW"
  ELSE IF w = <<"D", "E", "N", "Y">> THEN "DENY"
  ELSE "REJECT"

\* ^\[\s*(\d+)\] of the pattern: the position of "]", 0 when the head of the
\* line does not match
HeadEnd(s) ==
  LET ps == {p \in 3..Len(s) :
               /\ s[p] = "]"
               /\ \E d \in 2..(p - 1) :
                    /\ \A i \in 2..(d - 1) : IsSpace(s[i])
                    /\ \A i \in d..(p - 1) : IsDigit(s[i])}
  IN IF s # <<>> /\ s[1] = "[" /\ ps # {} THEN CHOOSE p \in ps : TRUE ELSE 0

\* \s+(IN|OUT)?\s+(.+)$ of the pattern, tried at position m of a stripped
\* line, t being the first position from m on without white space: groups 4
\* and 5 of the match the regex engine finds first, {} when there is none.
\* Without IN or OUT the two \s+ need two characters of white space.
DirectionAndFrom(s, m, t) ==
  LET dirs == {w \in DirectionWords : /\ WordAt(s, t, w)
                                      /\ t + Len(w) <= Len(s)
                                      /\ IsSpace(s[t + Len(w)])}
  IN IF t = m \/ t > Len(s) THEN {}
     ELSE IF dirs # {}
     THEN {[direction |-> w,
            from |-> SubSeq(s, FirstSolid(s, t + Len(w)), Len(s))] : w \in dirs}
     ELSE IF t - m >= 2
     THEN {[direction |-> <<>>, from |-> SubSeq(s, t, Len(s))]}
     ELSE {}

\* \s+(ALLOW|DENY|REJECT)\s+(IN|OUT)?\s+(.+)$ of the pattern, tried right
\* after position e of a stripped line: groups 3 to 5, {} when it fails
PatternTail(s, e) ==
  LET k == FirstSolid(s, e + 1)
  IN IF k = e + 1 THEN {}
     ELSE UNION {{[action |-> ActionName(w), direction |-> r.direction,
                   from |-> r.from] :
                    r \in DirectionAndFrom(s, k + Len(w),
                                           FirstSolid(s, k + Len(w)))} :
                 w \in {a \in ActionWords : WordAt(s, k, a)}}

\* pattern.match(line) is None
NoGroups == [num |-> <<>>]

\* the groups of the match for the positions found: p of "]", b and e of the
\* first and last character of group 2
GroupsAt(s, p, b, e) ==
  {[num |-> Strip(SubSeq(s, 2, p - 1)), to |-> SubSeq(s, b, e),
    action |-> r.action, direction |-> r.direction, from |-> r.from] :
     r \in PatternTail(s, e)}

\* pattern.match(line) for a stripped line (lines 95-97, 104): the groups
\* of the match the regex engine finds first. \s+ after "]" takes all the
\* white space it can and the lazy (.+?) stops at the first position the
\* rest of the pattern matches from.
StatusPattern(s) ==
  LET p == HeadEnd(s)
      q == FirstSolid(s, p + 1)
      ends == {e \in (p + 2)..Len(s) : PatternTail(s, e) # {}}
      late == {e \in ends : e >= q}
  IN IF p = 0 \/ q = p + 1 \/ ends = {} THEN NoGroups
     ELSE IF late # {}
     THEN CHOOSE g \in GroupsAt(s, p, q,
                                CHOOSE e \in late : \A x \in late : e <= x) :
            TRUE
     ELSE CHOOSE g \in UNION {GroupsAt(s, p, e, e) :
                                e \in {y \in ends : \A x \in ends : x <= y}} :
            TRUE

\* a rule dict as list_rules appends it (lines 126-132)
NumberedRule(num, rule, action, direction, from) ==
  [num |-> num, rule |-> rule, action |-> action, direction |-> direction,
   from |-> from]

\* the test of line 118: the first column is the rule
KeepsToField(to_field) ==
  \/ PortPattern(to_field) # NoMatch
  \/ Contains(to_field, <<"/">>)
  \/ Lower(to_field) \in {Anywhere, <<"i", "p", "v", "6">>}

\* lines 109-132 for the stripped groups of a match
NormalizedRule(num, to_field, action, direction, from_field) ==
  IF KeepsToField(to_field)
  THEN NumberedRule(num, to_field, action, direction, from_field)
  ELSE NumberedRule(num, from_field, action, direction, to_field)

\* mutant: the number is not read from the line
RulesOfMatch_Unnumbered(m) ==
  IF m = NoGroups THEN <<>>
  ELSE <<NormalizedRule(0, Strip(m.to), m.action, m.direction,
                        Strip(m.from))>>

\* lines 104-132: what the loop appends for the result of pattern.match
RulesOfMatch(m) ==
  IF m = NoGroups THEN <<>>
  ELSE <<NormalizedRule(ToInt(m.num), Strip(m.to), m.action, m.direction,
                        Strip(m.from))>>

\* lines 100-132: what one iteration appends for a stripped line
RulesOfLine(line) ==
  IF ~StartsWith(line, <<"[">>) THEN <<>>
  ELSE RulesOfMatch(StatusPattern(line))

\* the loop of list_rules over output.splitlines() (lines 99-134)
RECURSIVE ListRulesOf(_)
ListRulesOf(output) ==
  IF output = <<>> THEN <<>>
  ELSE RulesOfLine(Strip(Head(output))) \o ListRulesOf(Tail(output))

\* ---- status lines list_rules is applied to
\* rule 1 of the example:  [1] 22/tcp ALLOW IN 192.168.1.5
SshFromHost ==
  <<"[", "1", "]", " ", "2", "2", "/", "t", "c", "p", " ", "A", "L", "L",
    "O", "W", " ", "I", "N", " ", "1", "9", "2", ".", "1", "6", "8", ".",
    "1", ".", "5">>

\* rule 2 of the example: one blank between action and source:  [2] Anywhere ALLOW 10.0.0.0/8
AnywhereFromNet ==
  <<"[", "2", "]", " ", "A", "n", "y", "w", "h", "e", "r", "e", " ", "A",
    "L", "L", "O", "W", " ", "1", "0", ".", "0", ".", "0", ".", "0", "/",
    "8">>

\* the same rule with two blanks after the action:  [2] Anywhere ALLOW  10.0.0.0/8
AnywhereFromNetWide ==
  <<"[", "2", "]", " ", "A", "n", "y", "w", "h", "e", "r", "e", " ", "A",
    "L", "L", "O", "W", " ", " ", "1", "0", ".", "0", ".", "0", ".", "0",
    "/", "8">>

\* an address without a prefix length in the first column:  [ 3] 1.1.1.1 DENY IN Anywhere
HostLine ==
  <<"[", " ", "3", "]", " ", "1", ".", "1", ".", "1", ".", "1", " ", "D",
    "E", "N", "Y", " ", "I", "N", " ", "A", "n", "y", "w", "h", "e", "r",
    "e">>

\* an application profile in the first column:  [4] SSH ALLOW IN Anywhere
ProfileLine ==
  <<"[", "4", "]", " ", "S", "S", "H", " ", "A", "L", "L", "O", "W", " ",
    "I", "N", " ", "A", "n", "y", "w", "h", "e", "r", "e">>

\* the IPv6 twin ufw prints for a port rule:  [5] 22/tcp (v6) ALLOW IN Anywhere (v6)
SshV6Line ==
  <<"[", "5", "]", " ", "2", "2", "/", "t", "c", "p", " ", "(", "v", "6",
    ")", " ", "A", "L", "L", "O", "W", " ", "I", "N", " ", "A", "n", "y",
    "w", "h", "e", "r", "e", " ", "(", "v", "6", ")">>

\* a bare port, outgoing:  [6] 80 REJECT OUT Anywhere
RejectOutLine ==
  <<"[", "6", "]", " ", "8", "0", " ", "R", "E", "J", "E", "C", "T", " ",
    "O", "U", "T", " ", "A", "n", "y", "w", "h", "e", "r", "e">>

\* the header ufw prints first:  Status: active
StatusHeader ==
  <<"S", "t", "a", "t", "u", "s", ":", " ", "a", "c", "t", "i", "v", "e">>

StatusLines ==
  {SshFromHost, AnywhereFromNet, AnywhereFromNetWide, HostLine, ProfileLine,
   SshV6Line, RejectOutLine, StatusHeader}

\* every output of at most MaxLines lines
StatusOutputs == UNION {[1..n -> StatusLines] : n \in 0..MaxLines}

\* no command has been called
NoCall == [method |-> "none"]
NoResult == [kind |-> "none", text |-> <<>>, rules |-> <<>>]

\* list_rules has not been called
NotListed == [returned |-> FALSE, rules |-> <<>>]

InitFirewall ==
  /\ ufw_output = <<>>
  /\ listing = NotListed
  /\ ufw_call = NoCall
  /\ ufw_result = NoResult

\* UFWManager.list_rules (firewall.py:83-134)
ListRules ==
  /\ ~listing.returned
  /\ listing' = [returned |-> TRUE, rules |-> ListRulesOf(ufw_output)]
  /\ UNCHANGED <<fmVars, pmVars, wsVars, nmVars, ufw_output, ufw_call, ufw_result>>

\* ---- firewall commands (firewall.py:26-38, 68-184)
\* the words the command lists are made of
W_sudo == <<"s", "u", "d", "o">>
W_ufw == <<"u", "f", "w">>
W_enable == <<"e", "n", "a", "b", "l", "e">>
W_disable == <<"d", "i", "s", "a", "b", "l", "e">>
W_reload == <<"r", "e", "l", "o", "a", "d">>
W_status == <<"s", "t", "a", "t", "u", "s">>
W_verbose == <<"v", "e", "r", "b", "o", "s", "e">>
W_numbered == <<"n", "u", "m", "b", "e", "r", "e", "d">>
W_default == <<"d", "e", "f", "a", "u", "l", "t">>
W_allow == <<"a", "l", "l", "o", "w">>
W_deny == <<"d", "e", "n", "y">>
W_delete == <<"d", "e", "l", "e", "t", "e">>
W_from == <<"f", "r", "o", "m">>

\* the text of the RuntimeError of line 38, before the tool's stderr
FailedPrefix ==
  <<"U", "F", "W", " ", "c", "o", "m", "m", "a", "n", "d", " ", "f", "a",
    "i", "l", "e", "d", ":", " ">>

\* what the tool may print: a confirmation, and a numbered status
RulesUpdated ==
  <<"R", "u", "l", "e", "s", " ", "u", "p", "d", "a", "t", "e", "d", "\n">>
NumberedStatus ==
  <<"S", "t", "a", "t", "u", "s", ":", " ", "a", "c", "t", "i", "v", "e",
    "\n", "\n", "[", " ", "1", "]", " ", "2", "2", "/", "t", "c", "p", " ",
    "A", "L", "L", "O", "W", " ", "I", "N", " ", "A", "n", "y", "w",
    "h", "e", "r", "e", "\n", "[", " ", "2", "]", " ", "S", "S", "H", " ",
    "D", "E", "N", "Y", " ", "I", "N", " ", "1", ".", "1", ".", "1", ".",
    "1", "\n">>
\* what the tool may write to stderr
NeedRoot ==
  <<"E", "R", "R", "O", "R", ":", " ", "Y", "o", "u", " ", "n", "e", "e",
    "d", " ", "t", "o", " ", "b", "e", " ", "r", "o", "o", "t", " ", "t",
    "o", " ", "r", "u", "n", " ", "t", "h", "i", "s", " ", "s", "c", "r",
    "i", "p", "t", "\n">>

\* str.splitlines
RECURSIVE SplitLines(_)
SplitLines(s) ==
  IF s = <<>> THEN <<>>
  ELSE IF \A i \in 1..Len(s) : s[i] # "\n" THEN <<s>>
  ELSE <<SubSeq(s, 1, (CHOOSE i \in 1..Len(s) :
                         s[i] = "\n" /\ \A j \in 1..(i - 1) : s[j] # "\n") - 1)>>
       \o SplitLines(SubSeq(s, (CHOOSE i \in 1..Len(s) :
                         s[i] = "\n" /\ \A j \in 1..(i - 1) : s[j] # "\n") + 1,
                            Len(s)))

\* str.split: the words between runs of white space
RECURSIVE SplitWords(_)
SplitWords(s) ==
  IF FirstSolid(s, 1) > Len(s) THEN <<>>
  ELSE <<SubSeq(s, FirstSolid(s, 1),
                CHOOSE e \in FirstSolid(s, 1)..Len(s) :
                  /\ \A k \in FirstSolid(s, 1)..e : ~IsSpace(s[k])
                  /\ e = Len(s) \/ IsSpace(s[e + 1]))>>
       \o SplitWords(SubSeq(s, (CHOOSE e \in FirstSolid(s, 1)..Len(s) :
                                  /\ \A k \in FirstSolid(s, 1)..e : ~IsSpace(s[k])
                                  /\ e = Len(s) \/ IsSpace(s[e + 1])) + 1,
                            Len(s)))

\* str() of a port number
RECURSIVE ToStr(_)
ToStr(n) ==
  IF n < 10 THEN <<DigitChars[n + 1]>>
  ELSE ToStr(n \div 10) \o <<DigitChars[(n % 10) + 1]>>

\* f"{port}/{proto}" if proto else str(port) (lines 156, 160, 164)
PortText(port, proto) ==
  IF proto # <<>> THEN ToStr(port) \o <<"/">> \o proto ELSE ToStr(port)

\* the calls of the command methods: the method and its arguments (for
\* proto, <<>> is None)
Calls ==
  [method : {"enable", "disable", "reload", "list_rules", "allow_all",
             "deny_all"}]
  \cup [method : {"status"}, verbose : BOOLEAN]
  \cup [method : {"allow_ip", "block_ip", "remove_ip"}, ip : {RemoteIp}]
  \cup [method : {"allow_port", "block_port", "remove_port"},
        port : {22}, proto : {<<>>, Tcp}]
  \cup [method : {"allow_protocol", "block_protocol", "remove_protocol"},
        proto : {<<"s", "s", "h">>}]
  \cup [method : {"remove_rule"},
        rule : {W_allow \o <<" ", " ">> \o W_from \o <<" ">> \o RemoteIp}]

\* the command list a method passes to _run (lines 68-184)
CommandOf(call) ==
  CASE call.method = "enable" -> <<W_enable>>
    [] call.method = "disable" -> <<W_disable>>
    [] call.method = "reload" -> <<W_reload>>
    [] call.method = "status" ->
         IF call.verbose THEN <<W_status, W_verbose>> ELSE <<W_status>>
    [] call.method = "list_rules" -> <<W_status, W_numbered>>
    [] call.method = "allow_all" -> <<W_default, W_allow>>
    [] call.method = "deny_all" -> <<W_default, W_deny>>
    [] call.method = "allow_ip" -> <<W_allow, W_from, call.ip>>
    [] call.method = "block_ip" -> <<W_deny, W_from, call.ip>>
    [] call.method = "remove_ip" -> <<W_delete, W_allow, W_from, call.ip>>
    [] call.method = "allow_port" ->
         <<W_allow, PortText(call.port, call.proto)>>
    [] call.method = "block_port" ->
         <<W_deny, PortText(call.port, call.proto)>>
    [] call.method = "remove_port" ->
         <<W_delete, W_allow, PortText(call.port, call.proto)>>
    [] call.method = "allow_protocol" -> <<W_allow, call.proto>>
    [] call.method = "block_protocol" -> <<W_deny, call.proto>>
    [] call.method = "remove_protocol" -> <<W_delete, W_allow, call.proto>>
    [] call.method = "remove_rule" -> <<W_delete>> \o SplitWords(call.rule)

\* what one run of the tool gives: its exit status and what it wrote
ToolRuns ==
  [exit : {0, 1}, stdout : {RulesUpdated, NumberedStatus},
   stderr : {<<>>, NeedRoot}]

\* mutant: the exit status is not checked
Run_Unchecked(tool) ==
  [kind |-> "str", text |-> Strip(tool.stdout), rules |-> <<>>]

\* UFWManager._run (lines 26-38) for what the tool did: the text returned,
\* or the RuntimeError raised with its message
Run(tool) ==
  IF tool.exit = 0
  THEN [kind |-> "str", text |-> Strip(tool.stdout), rules |-> <<>>]
  ELSE [kind |-> "RuntimeError", text |-> FailedPrefix \o Strip(tool.stderr),
        rules |-> <<>>]

\* list_rules (lines 91-134) on what _run gave: the error goes on to the
\* caller, the text is parsed into the list of rules
ListOf(ran) ==
  IF ran.kind = "RuntimeError" THEN ran
  ELSE [kind |-> "list", text |-> <<>>,
        rules |-> ListRulesOf(SplitLines(ran.text))]

\* the result of a command method
ResultOf(call, tool) ==
  IF call.method = "list_rules" THEN ListOf(Run(tool)) ELSE Run(tool)

\* one call of a command method of UFWManager
UfwCommand(call, tool) ==
  /\ ufw_result = NoResult
  /\ ufw_call' = [call |-> call, argv |-> <<W_sudo, W_ufw>> \o CommandOf(call),
                  tool |-> tool]
  /\ ufw_result' = ResultOf(call, tool)
  /\ UNCHANGED <<fmVars, pmVars, wsVars, nmVars, ufw_output, listing>>

\* ------------------------------------------------------- WebSocketManager
\* the two instances: websocket_manager of main.py:21, which the /ws endpoint
\* registers with and the monitors are given, and ws_manager of pcap.py:29
AppManager == "websocket_manager"
PcapManager == "ws_manager"
Managers == {AppManager, PcapManager}

ConnIds == 1..MaxConns

\* the instance each kind of event is broadcast on: file_monitor.py:170,
\* 251 and 293 use the manager FileMonitor was given, pcap.py:425 ws_manager
ManagerOf(type) ==
  IF type = "network_packet" THEN PcapManager ELSE AppManager

EventKinds == {"file_event", "new_alert", "network_packet"}

\* list.remove(x) for a list that holds x at most once
ListRemove(list, x) == SelectSeq(list, LAMBDA y : y # x)

NoBroadcast ==
  [pc |-> "idle", mgr |-> AppManager, type |-> "none", index |-> 0, cur |-> 0,
   disconnected |-> <<>>, got |-> [c \in ConnIds |-> 0], stayed |-> {},
   watching |-> {}, refused |-> {}]

\* WebSocketManager.__init__, twice
InitChannel ==
  /\ active_connections = [m \in Managers |-> <<>>]
  /\ connection_info = [m \in Managers |-> {}]
  /\ accepted = 0
  /\ bcast = NoBroadcast

\* main.py:85 websocket_endpoint -> WebSocketManager.connect, for a new
\* websocket
Connect ==
  /\ accepted < MaxConns
  /\ accepted' = accepted + 1
  /\ active_connections' =
       [active_connections EXCEPT ![AppManager] = Append(@, accepted + 1)]
  /\ connection_info' =
       [connection_info EXCEPT ![AppManager] = @ \cup {accepted + 1}]
  /\ UNCHANGED <<fmVars, pmVars, fwVars, nmVars, bcast>>

\* WebSocketManager.disconnect(websocket): the two collections afterwards
Disconnected(m, c) ==
  IF c \in Range(active_connections[m])
  THEN [list |-> ListRemove(active_connections[m], c),
        info |-> connection_info[m] \ {c}]
  ELSE [list |-> active_connections[m], info |-> connection_info[m]]

\* main.py:91-92: the client went away, the endpoint calls disconnect
Disconnect(c) ==
  /\ c \in Range(active_connections[AppManager])
  /\ active_connections' =
       [active_connections EXCEPT ![AppManager] = Disconnected(AppManager, c).list]
  /\ connection_info' =
       [connection_info EXCEPT ![AppManager] = Disconnected(AppManager, c).info]
  /\ bcast' = [bcast EXCEPT !.stayed = @ \ {c}, !.watching = @ \ {c}]
  /\ UNCHANGED <<fmVars, pmVars, fwVars, nmVars, accepted>>

\* `for connection in self.active_connections`: the list iterator holds an
\* index into the list itself; 0 when the iterator is exhausted
NextConnection(list, index) ==
  IF index < Len(list) THEN list[index + 1] ELSE 0

\* the for statement of broadcast, entered with the bookkeeping b: it fetches
\* the next connection and suspends in its send_text, or ends, and lines
\* 52-53 disconnect the connections whose send raised
Iterate(b) ==
  LET m == b.mgr
      c == NextConnection(active_connections[m], b.index)
      gone == Range(b.disconnected)
  IN IF c # 0
     THEN /\ bcast' = [b EXCEPT !.pc = "send", !.cur = c, !.index = @ + 1]
          /\ UNCHANGED <<active_connections, connection_info>>
     ELSE /\ bcast' = [b EXCEPT !.pc = "done", !.cur = 0]
          /\ active_connections' =
               [active_connections EXCEPT
                  ![m] = SelectSeq(@, LAMBDA y : y \notin gone)]
          /\ connection_info' = [connection_info EXCEPT ![m] = @ \ gone]

\* WebSocketManager.broadcast up to its first await: an empty list returns
\* at line 39
BroadcastBegin(type) ==
  /\ bcast.pc \in {"idle", "done"}
  /\ LET m == ManagerOf(type)
         b == [NoBroadcast EXCEPT !.mgr = m, !.type = type,
                                  !.stayed = Range(active_connections[m]),
                                  !.watching = Range(active_connections[AppManager])]
     IN bcast' = IF active_connections[m] = <<>>
                 THEN [b EXCEPT !.pc = "done"]
                 ELSE [b EXCEPT !.pc = "send", !.index = 1,
                                !.cur = NextConnection(active_connections[m], 0)]
  /\ UNCHANGED <<fmVars, pmVars, fwVars, nmVars, active_connections,
                 connection_info, accepted>>

\* `await connection.send_text(message_str)` returns, and broadcast runs to
\* its next await or to its end
SendText ==
  /\ bcast.pc = "send"
  /\ Iterate([bcast EXCEPT !.got[bcast.cur] = @ + 1])
  /\ UNCHANGED <<fmVars, pmVars, fwVars, nmVars, accepted>>

\* `await connection.send_text(message_str)` raises: lines 47-49, and
\* broadcast runs to its next await or to its end
SendTextFails ==
  /\ bcast.pc = "send"
  /\ Iterate([bcast EXCEPT !.disconnected = Append(@, bcast.cur),
                           !.refused = @ \cup {bcast.cur}])
  /\ UNCHANGED <<fmVars, pmVars, fwVars, nmVars, accepted>>

\* --------------------------------------------------------- NetworkMonitor
NetTaskIds == 1..MaxStarts

\* NetworkMonitor.__init__
InitNetworkMonitor ==
  /\ net_monitoring = FALSE
  /\ monitor_task = 0
  /\ monitor_tasks = [t \in NetTaskIds |-> "unborn"]
  /\ net_loading = 0
  /\ net_stopping = {}

InitServices == InitChannel /\ InitNetworkMonitor

\* NetworkMonitor.start up to `await self._load_firewall_rules()`; a call
\* that finds self.monitoring set returns at once
NetStartBegin ==
  /\ ~net_monitoring
  /\ net_loading + Cardinality({t \in NetTaskIds : monitor_tasks[t] # "unborn"})
       < MaxStarts
  /\ net_monitoring' = TRUE
  /\ net_loading' = net_loading + 1
  /\ UNCHANGED <<fmVars, pmVars, fwVars, wsVars, monitor_task, monitor_tasks,
                 net_stopping>>

\* NetworkMonitor.start from the return of _load_firewall_rules: line 32
NetStartFinish ==
  /\ net_loading > 0
  /\ net_loading' = net_loading - 1
  /\ \E t \in NetTaskIds :
       /\ monitor_tasks[t] = "unborn"
       /\ \A u \in NetTaskIds : u < t => monitor_tasks[u] # "unborn"
       /\ monitor_tasks' = [monitor_tasks EXCEPT ![t] = "loop"]
       /\ monitor_task' = t
  /\ UNCHANGED <<fmVars, pmVars, fwVars, wsVars, net_monitoring, net_stopping>>

\* NetworkMonitor.stop up to `await self.monitor_task`; a finished task is
\* awaited without suspending
NetStopBegin ==
  /\ net_monitoring' = FALSE
  /\ IF monitor_task # 0
     THEN /\ monitor_tasks' = [monitor_tasks EXCEPT ![monitor_task] = Cancel(@)]
          /\ net_stopping' = IF monitor_tasks[monitor_task] = "done"
                             THEN net_stopping
                             ELSE net_stopping \cup {monitor_task}
     ELSE UNCHANGED <<monitor_tasks, net_stopping>>
  /\ UNCHANGED <<fmVars, pmVars, fwVars, wsVars, monitor_task, net_loading>>

\* NetworkMonitor.stop resumes when the task it awaits has finished
NetStopReturn(t) ==
  /\ t \in net_stopping
  /\ monitor_tasks[t] = "done"
  /\ net_stopping' = net_stopping \ {t}
  /\ UNCHANGED <<fmVars, pmVars, fwVars, wsVars, net_monitoring, monitor_task,
                 monitor_tasks, net_loading>>

\* _monitor_loop: `while self.monitoring`
MonitorLoopCheck(t) ==
  /\ monitor_tasks[t] = "loop"
  /\ monitor_tasks' = [monitor_tasks EXCEPT
                         ![t] = IF net_monitoring THEN "body" ELSE "done"]
  /\ UNCHANGED <<fmVars, pmVars, fwVars, wsVars, net_monitoring, monitor_task,
                 net_loading, net_stopping>>

\* _monitor_loop: one pass of lines 49-64, through its sleep
MonitorPass(t) ==
  /\ monitor_tasks[t] = "body"
  /\ monitor_tasks' = [monitor_tasks EXCEPT ![t] = "loop"]
  /\ UNCHANGED <<fmVars, pmVars, fwVars, wsVars, net_monitoring, monitor_task,
                 net_loading, net_stopping>>

\* CancelledError leaves _monitor_loop: `except Exception` does not catch it
MonitorCancelled(t) ==
  /\ monitor_tasks[t] = "cancelled"
  /\ monitor_tasks' = [monitor_tasks EXCEPT ![t] = "done"]
  /\ UNCHANGED <<fmVars, pmVars, fwVars, wsVars, net_monitoring, monitor_task,
                 net_loading, net_stopping>>

InitPacketMonitor ==
  /\ rules = <<>>
  /\ running = FALSE
  /\ local_ips = {}
  /\ thread = 0
  /\ captures = [c \in CaptureIds |-> "unborn"]
  /\ packet = NoPacket
  /\ verdict = "none"
  /\ warned = FALSE
  /\ loop = "open"
  /\ lines = [c \in CaptureIds |-> <<>>]
  /\ sent = <<>>
  /\ load_failed = FALSE

\* the protected_files table: the file's row and the directory's row
Table(fileRow) ==
  [id \in FileIds |-> IF id = FileId THEN fileRow
                      ELSE NewRow(DirPath, DefaultFlags, 0)]

\* tables the lifecycle is exercised on: a fresh file with the default flags,
\* and an auto_lock file that is already past the escalation threshold
LifecycleTables ==
  {Table(NewRow(FilePath, DefaultFlags, 0)),
   Table(NewRow(FilePath, [DefaultFlags EXCEPT !.auto_lock = TRUE],
                AutoLockThreshold + 1))}

\* tables the alert policy is exercised on: every combination of flags, on a
\* fresh file and on one already past the escalation threshold
PolicyTables ==
  {Table(NewRow(FilePath, flags, a)) :
     flags \in AllFlags, a \in {0, AutoLockThreshold + 1}}

\* the table of the escalation scenario: a fresh auto_lock file
EscalationTable ==
  Table(NewRow(FilePath, [DefaultFlags EXCEPT !.auto_lock = TRUE], 0))

Init ==
  /\ \E rows \in LifecycleTables : InitFileMonitor(rows)
  /\ InitServices
  /\ InitPacketMonitor
  /\ InitFirewall

InitPolicy ==
  /\ \E rows \in PolicyTables : InitFileMonitor(rows)
  /\ InitServices
  /\ InitPacketMonitor
  /\ InitFirewall

InitEscalation ==
  /\ InitFileMonitor(EscalationTable)
  /\ InitServices
  /\ InitPacketMonitor
  /\ InitFirewall

\* main.py lifespan awaits start() and stop() one after the other
Start == stopPc = "idle" /\ StartBegin
Stop == startPc = "idle" /\ StopBegin

\* the events the lifecycle is exercised on: one on the protected file, one
\* below the protected directory, one on an unprotected sibling
LifecycleEvents ==
  {[type |-> "modified", path |-> FilePath],
   [type |-> "created", path |-> ChildPath],
   [type |-> "deleted", path |-> SiblingPath]}

\* the watcher reports one of the lifecycle events
Watcher ==
  /\ emitted < MaxEvents
  /\ \E e \in LifecycleEvents : QueueFileEvent(e.type, e.path)

\* the watcher reports any event on any watched file
WatcherPolicy ==
  /\ emitted < MaxEvents
  /\ \E ty \in EventTypes, p \in EventPaths : QueueFileEvent(ty, p)

\* the watcher reports a run of events on the protected file
WatcherEscalation ==
  /\ emitted < EscalationEvents
  /\ QueueFileEvent("modified", FilePath)

\* an administrator unlocks the protected file
Unlock == UnlockFile(FileId)

ConsumerSteps(t) ==
  \/ LoopCheck(t)
  \/ Timeout(t)
  \/ Dequeue(t)
  \/ HandleGet(t)
  \/ HandleUpdate(t)
  \/ HandleAlert(t)
  \/ HandleAlertPub(t)
  \/ HandleLock(t)
  \/ HandleLockAlert(t)
  \/ HandleLockPub(t)
  \/ HandleEventPub(t)
  \/ HandleReturn(t)

Next ==
  \/ Start
  \/ StartFinish
  \/ Stop
  \/ StopReturn
  \/ Watcher
  \/ PutEvent
  \/ \E t \in TaskIds : ConsumerSteps(t)
  \/ \E t \in TaskIds : TaskCancelled(t)

\* the file monitor with start() and stop() called in sequence
Spec == Init /\ [][Next]_vars

NextPolicy ==
  \/ Start
  \/ StartFinish
  \/ WatcherPolicy
  \/ PutEvent
  \/ \E t \in TaskIds : ConsumerSteps(t)

\* a running file monitor handling events under every alert policy
SpecPolicy == InitPolicy /\ [][NextPolicy]_vars

NextEscalation ==
  \/ Start
  \/ StartFinish
  \/ WatcherEscalation
  \/ PutEvent
  \/ Unlock
  \/ \E t \in TaskIds : ConsumerSteps(t)

\* a running file monitor receiving a run of events on one auto_lock file
SpecEscalation == InitEscalation /\ [][NextEscalation]_vars

\* the classifier applied to every rule list, local-address set and packet
InitClassify ==
  /\ InitFileMonitor(EscalationTable)
  /\ InitServices
  /\ rules \in RuleLists
  /\ load_failed = FALSE
  /\ local_ips \in LocalSets
  /\ running = FALSE
  /\ thread = 0
  /\ captures = [c \in CaptureIds |-> "unborn"]
  /\ packet = NoPacket
  /\ verdict = "none"
  /\ warned = FALSE
  /\ loop = "open"
  /\ lines = [c \in CaptureIds |-> <<>>]
  /\ sent = <<>>
  /\ InitFirewall

NextClassify == \E pkt \in Packets : Classify(pkt)

SpecClassify == InitClassify /\ [][NextClassify]_vars

InitCapture ==
  /\ InitFileMonitor(EscalationTable)
  /\ InitServices
  /\ InitPacketMonitor
  /\ InitFirewall

NextCapture ==
  \/ PMStart
  \/ PMStop
  \/ \E c \in CaptureIds : CaptureSetup(c)
  \/ \E c \in CaptureIds : CaptureLaunchFails(c)
  \/ \E c \in CaptureIds, line \in LifecycleLines : TcpdumpWrites(c, line)
  \/ \E c \in CaptureIds : CaptureLine(c)
  \/ \E c \in CaptureIds : CaptureStopSeen(c)
  \/ \E c \in CaptureIds : CaptureEnds(c)

\* the packet monitor under any sequence of start() and stop() calls
SpecCapture == InitCapture /\ [][NextCapture]_vars

\* the first start() of the packet monitor
FirstStart == thread = 0 /\ PMStart

NextPipeline ==
  \/ FirstStart
  \/ PMStop
  \/ \E c \in CaptureIds : CaptureSetup(c)
  \/ \E c \in CaptureIds : CaptureLaunchFails(c)
  \/ \E c \in CaptureIds, line \in CaptureLines : TcpdumpWrites(c, line)
  \/ \E c \in CaptureIds : CaptureLine(c)
  \/ \E c \in CaptureIds : CaptureStopSeen(c)
  \/ \E c \in CaptureIds : CaptureEnds(c)
  \/ LoopCloses

\* one capture run, from start() to the end of its thread, reading any lines
SpecPipeline == InitCapture /\ [][NextPipeline]_vars

\* the capture threads take their steps; start() and stop() calls and the
\* output of the capture subprocess are up to the environment
CaptureFairness ==
  \A c \in CaptureIds :
    /\ WF_vars(CaptureSetup(c) \/ CaptureLaunchFails(c))
    /\ WF_vars(CaptureLine(c))
    /\ WF_vars(CaptureStopSeen(c))

SpecCaptureLive == SpecCapture /\ CaptureFairness

\* list_rules applied to every output
InitListRules ==
  /\ InitFileMonitor(EscalationTable)
  /\ InitServices
  /\ InitPacketMonitor
  /\ ufw_output \in StatusOutputs
  /\ listing = NotListed
  /\ ufw_call = NoCall
  /\ ufw_result = NoResult

NextListRules == ListRules

SpecListRules == InitListRules /\ [][NextListRules]_vars

\* every command method, on every run of the tool
NextCommands == \E call \in Calls, tool \in ToolRuns : UfwCommand(call, tool)

SpecCommands == InitCapture /\ [][NextCommands]_vars

\* the event loop runs what is ready: scheduled puts, the consumer tasks and
\* the start() and stop() calls that wait on them; nobody is bound to call
\* start() or stop(), and the watcher is not bound to report anything
LoopFairness ==
  /\ WF_vars(PutEvent)
  /\ WF_vars(StartFinish)
  /\ WF_vars(StopReturn)
  /\ \A t \in TaskIds : WF_vars(ConsumerSteps(t)) /\ WF_vars(TaskCancelled(t))

SpecLive == Spec /\ LoopFairness

NextInterleaved ==
  \/ Start
  \/ StartFinish
  \/ StopBegin
  \/ StopReturn
  \/ Watcher
  \/ PutEvent
  \/ \E t \in TaskIds : ConsumerSteps(t)
  \/ \E t \in TaskIds : TaskCancelled(t)

\* the file monitor with stop() free to run while start() is suspended in
\* _load_protected_files
SpecInterleaved == Init /\ [][NextInterleaved]_vars

NextChannel ==
  \/ Connect
  \/ \E c \in ConnIds : Disconnect(c)
  \/ \E type \in EventKinds : BroadcastBegin(type)
  \/ SendText
  \/ SendTextFails

\* the broadcast channel with clients coming and going during a broadcast
SpecChannel == Init /\ [][NextChannel]_vars

NextNetwork ==
  \/ NetStartBegin
  \/ NetStartFinish
  \/ NetStopBegin
  \/ \E t \in NetTaskIds : NetStopReturn(t)
  \/ \E t \in NetTaskIds : MonitorLoopCheck(t)
  \/ \E t \in NetTaskIds : MonitorPass(t)
  \/ \E t \in NetTaskIds : MonitorCancelled(t)

\* the network monitor under every interleaving of start() and stop() calls
SpecNetwork == Init /\ [][NextNetwork]_vars

NextPaths ==
  \/ Start
  \/ StartFinish
  \/ Stop
  \/ StopReturn
  \/ \E t \in TaskIds : LoopCheck(t) \/ Timeout(t)
  \/ \E t \in TaskIds : TaskCancelled(t)
  \/ \E p \in ManagedPaths : AddProtectedPath(p)
  \/ \E p \in ManagedPaths : RemoveProtectedPath(p)

\* the file monitor with paths added and removed while it runs or rests
SpecPaths == Init /\ [][NextPaths]_vars

\* the protected paths of the table
TablePaths == {FilePath, DirPath}

NextRemoval ==
  \/ Start
  \/ StartFinish
  \/ Watcher
  \/ PutEvent
  \/ \E t \in TaskIds : ConsumerSteps(t)
  \/ \E p \in TablePaths : RemoveProtectedPath(p)

\* a running file monitor with protected paths removed while events arrive
SpecRemoval == Init /\ [][NextRemoval]_vars

NextFailures ==
  \/ Next
  \/ \E t \in TaskIds : HandleFails(t)

\* the file monitor with any await of the handler free to raise
SpecFailures == Init /\ [][NextFailures]_vars /\ LoopFairness

\* =================================================================== claims
Attempts(tbl, id) == tbl[id].access_attempts
Copies(row, bag) == CopiesIn(row, bag)
Alive(o) == observers[o] = "alive"
Running(t) == tasks[t] \notin {"unborn", "done"}

\* C1: with auto_lock, starting from access_attempts = 0 and status
\* PROTECTED, the change of status to LOCKED happens while the 6th event is
\* handled, i.e. in a step that leaves access_attempts at 6.
C1_LockedOnSixthEvent ==
  [][\A id \in FileIds :
       (protected_files[id].status = "protected"
          /\ protected_files'[id].status = "locked")
       => Attempts(protected_files', id) = AutoLockThreshold + 1]_vars

\* C2: once a path's status is LOCKED, the escalation step of a later event
\* does not write status and lock_reason again (and so records and publishes
\* no further critical alert).
C2_NoTransitionWhileLocked ==
  [][\A t \in TaskIds :
       (tasks[t] = "lock" /\ protected_files[pf[t].id].status = "locked")
       => tasks'[t] # "lock_alert"]_vars

\* C5: after stop() has returned and until start() is called again, no file
\* event is handled: nothing is dequeued, no counter is incremented, no alert
\* is recorded and nothing is published.
Stopped == ~monitoring /\ startPc = "idle" /\ stopPc = "idle"

C5_NothingHandledAfterStop ==
  [][Stopped => /\ cur' = cur
                /\ protected_files' = protected_files
                /\ alerts' = alerts
                /\ broadcasts' = broadcasts]_vars

\* C5 witness: stop() has returned while an event the watcher enqueued is
\* still in the queue.
C5_Witness ==
  /\ Stopped
  /\ processing_task # 0
  /\ tasks[processing_task] = "done"
  /\ event_queue # <<>>

\* C6: an event whose handling has started is handled to the end even when
\* stop() is called meanwhile: from a position inside _handle_file_event the
\* consumer only moves on inside it or returns from it.
C6_InFlightEventCompleted ==
  [][\A t \in TaskIds :
       tasks[t] \in Handling
       => tasks'[t] \in Handling \cup {"handled", "loop"}]_vars

\* C8: when start() has returned (after a stop() that returned, or for the
\* first time), exactly one observer is alive and it is self.observer,
\* exactly one consumer task is running and it is self.processing_task.
Started == monitoring /\ startPc = "idle" /\ stopPc = "idle"

C8_OneObserverOneConsumer ==
  Started =>
    /\ {o \in ObserverIds : Alive(o)} = {observer}
    /\ {t \in TaskIds : Running(t)} = {processing_task}

\* C8 witness: the monitor was stopped and started again.
C8_Witness ==
  /\ Started
  /\ \E o \in ObserverIds : observers[o] = "stopped"
  /\ \E t \in TaskIds : tasks[t] = "done"

\* what one completed handling added to a bag
Added(t, row, now, before) == Copies(row, now) - Copies(row, before)

\* C9: a handled MODIFIED event on a path with alert_on_write increments
\* access_attempts by exactly 1, records and publishes exactly one WARNING
\* file alert, and publishes exactly one file_event.
C9_ModifiedEventEffects ==
  \A t \in TaskIds :
    (tasks[t] = "handled" /\ cur[t].type = "modified" /\ pf[t].alert_on_write)
    => /\ Attempts(protected_files, pf[t].id)
            = Attempts(h0[t].protected_files, pf[t].id) + 1
       /\ Added(t, WarningAlert, alerts, h0[t].alerts) = 1
       /\ Added(t, AlertMessage(WarningAlert), broadcasts, h0[t].broadcasts) = 1
       /\ Added(t, FileEventMessage, broadcasts, h0[t].broadcasts) = 1

\* C9 witness: such an event was handled with no escalation due.
C9_Witness ==
  \E t \in TaskIds :
    /\ tasks[t] = "handled"
    /\ cur[t].type = "modified"
    /\ pf[t].alert_on_write
    /\ ~pf[t].auto_lock
    /\ pf[t].path = FilePath

\* C10: a handled event produced a WARNING file alert if and only if it is
\* MODIFIED or MOVED with alert_on_write, or CREATED or DELETED with
\* alert_on_delete; alert_on_read plays no part.
C10_AlertPolicy ==
  \A t \in TaskIds :
    tasks[t] = "handled"
    => LET write == cur[t].type \in {"modified", "moved"}
           delete == cur[t].type \in {"created", "deleted"}
           due == \/ write /\ pf[t].alert_on_write
                  \/ delete /\ pf[t].alert_on_delete
       IN Added(t, WarningAlert, alerts, h0[t].alerts) = (IF due THEN 1 ELSE 0)

\* C10 witness: an event was handled without an alert on a path whose
\* alert_on_read is set, and the policy flag of the event's type is not.
C10_Witness ==
  \E t \in TaskIds :
    /\ tasks[t] = "handled"
    /\ cur[t].type = "moved"
    /\ pf[t].alert_on_read
    /\ ~pf[t].alert_on_write
    /\ pf[t].alert_on_delete
    /\ Added(t, WarningAlert, alerts, h0[t].alerts) = 0

\* the outcome of the i-th rule of self.rules for the classified packet
OutcomeOf(i) ==
  RuleOutcome(rules[i], packet.src_ip \in local_ips, packet.protocol,
              packet.src_ip, packet.dst_port)
RuleMatches(i) == OutcomeOf(i) \in {"allowed", "denied"}
Classified == verdict # "none"

\* C3: if no rule matches the packet, check_packet_status returns allowed
\* when the packet's source address is in the local-address set and denied
\* otherwise.
C3_DefaultPolicy ==
  (Classified /\ \A i \in 1..Len(rules) : ~RuleMatches(i))
  => verdict = (IF packet.src_ip \in local_ips THEN "allowed" ELSE "denied")

\* C4: the verdict is the action of the first rule in list order that
\* matches the packet; later rules have no influence.
C4_FirstMatchWins ==
  \A i \in 1..Len(rules) :
    (Classified /\ RuleMatches(i) /\ \A j \in 1..(i - 1) : ~RuleMatches(j))
    => verdict = (IF rules[i].action = "ALLOW" THEN "allowed" ELSE "denied")

\* C7: after any sequence of start() and stop() calls at most one capture
\* thread is alive with its capture subprocess.
C7_AtMostOneCapture ==
  Cardinality({c \in CaptureIds : Reading(c)}) <= 1

\* C11: an event is attributed to the record whose path equals the event
\* path if there is one, otherwise to the record of a protected directory d
\* with the event path starting with d + "/"; with neither the event is
\* dropped: no counter change, no alert, nothing published.
ExactRecords(p) == {id \in FileIds : protected_files[id].path = p}
DirRecords(p) ==
  {id \in FileIds : StartsWith(p, protected_files[id].path \o <<"/">>)}
C11_Attribution ==
  [][\A t \in TaskIds :
       (tasks[t] = "get" /\ tasks'[t] \in {"update", "loop"})
       => LET p == cur[t].path
          IN IF ExactRecords(p) # {}
             THEN tasks'[t] = "update" /\ pf'[t].id \in ExactRecords(p)
             ELSE IF DirRecords(p) # {}
             THEN tasks'[t] = "update" /\ pf'[t].id \in DirRecords(p)
             ELSE /\ tasks'[t] = "loop"
                  /\ UNCHANGED <<protected_files, alerts, broadcasts>>]_vars
C11_Witness ==
  \E t \in TaskIds :
    tasks[t] = "update" /\ cur[t].path = ChildPath /\ pf[t].id = DirId

\* C12: a rule whose direction is IN never determines the verdict of an
\* outgoing packet, a rule whose direction is OUT never that of an incoming
\* one (the verdict is the one of the list without those rules); a rule with
\* no direction is considered for both directions.
Outgoing == packet.src_ip \in local_ips
Contradicts(rule, outgoing) ==
  \/ outgoing /\ rule.direction = DirIn
  \/ ~outgoing /\ rule.direction = DirOut
Considered(rs, outgoing) ==
  SelectSeq(rs, LAMBDA rule : ~Contradicts(rule, outgoing))
SshToAnywhere(rule) == rule.rule = PortSsh /\ rule.from = AnywhereField
SshPacket == packet.dst_port = 22 /\ packet.protocol = <<"T", "C", "P">>
C12_DirectionRespected ==
  Classified =>
    /\ verdict = CheckPacketStatus(Considered(rules, Outgoing), local_ips,
                                   packet.protocol, packet.src_ip,
                                   packet.dst_ip, packet.src_port,
                                   packet.dst_port)
    /\ (/\ rules # <<>> /\ rules[1].direction = <<>>
        /\ SshToAnywhere(rules[1]) /\ SshPacket)
       => verdict = ActionVerdict(rules[1].action)
C12_Witness ==
  /\ Classified /\ Outgoing /\ SshPacket
  /\ Len(rules) = 1 /\ SshToAnywhere(rules[1])
  /\ rules[1].direction = DirIn /\ rules[1].action = "DENY"
  /\ verdict = "allowed"

\* C13: a rule whose port or service-name matcher matches the packet
\* determines the verdict only if its source matcher is anywhere/any or an IP
\* literal equal to the packet's source address; with any other source
\* matcher it is passed over (the verdict is the one of the list without it).
MatcherMatches(rule) ==
  LET rule_text == Lower(rule.rule)
  IN \/ /\ packet.dst_port \notin {NoPort, 0}
        /\ PortHit(rule_text, packet.protocol, packet.dst_port)
     \/ /\ InProtocolPorts(rule_text)
        /\ packet.dst_port = ProtocolPort(rule_text).port
        /\ Lower(packet.protocol) = ProtocolPort(rule_text).proto
SourceAdmits(rule) ==
  \/ Lower(rule.from) \in {Anywhere, AnyWord}
  \/ IsIpLiteral(rule.from) /\ rule.from = packet.src_ip
PassedOver(rule) == MatcherMatches(rule) /\ ~SourceAdmits(rule)
C13_SourceRestricts ==
  Classified =>
    verdict = CheckPacketStatus(SelectSeq(rules, LAMBDA rule : ~PassedOver(rule)),
                                local_ips, packet.protocol, packet.src_ip,
                                packet.dst_ip, packet.src_port, packet.dst_port)

\* C14: start() called while the pipeline is running is a no-op: no capture
\* thread is created and the running flag, the rule set and the thread
\* reference are unchanged.
C14_StartWhileRunning ==
  [][(running /\ PMStart) => UNCHANGED <<running, rules, thread, captures>>]_vars
C14_Witness ==
  warned /\ running /\ \E c \in CaptureIds : Reading(c)

\* C15: after stop() is called while a capture is running, the capture
\* thread eventually terminates its subprocess and exits, in every execution.
C15_StopEndsCapture ==
  \A c \in CaptureIds : (Reading(c) /\ ~running) ~> (captures[c] = "exited")

\* C16: if the capture tool cannot be launched the pipeline remains idle:
\* the running flag is not set while the launch is attempted and fails.
C16_LaunchFailureStaysIdle ==
  [][\A c \in CaptureIds :
       (captures[c] = "setup" /\ captures'[c] = "exited") => ~running]_vars

\* C17: a capture line that matches none of the parse patterns (no leading
\* timestamp, or no "src > dst" pair) publishes no network_packet event and
\* raises nothing: the loop goes on to read the next line.
Unparseable(line) == line \in {ContinuationLine, ArpLine}
C17_UnparseableLineSkipped ==
  [][\A c \in CaptureIds :
       (/\ captures[c] = "line" /\ running /\ Unparseable(lines[c])
        /\ captures'[c] # "line")
       => /\ sent' = sent
          /\ captures'[c] = "reading"
          /\ running']_vars
C17_Witness ==
  \E c \in CaptureIds :
    /\ captures[c] = "reading" /\ running
    /\ lines[c] = ArpLine /\ sent = <<>>

\* C18: when a packet was parsed but the event loop the pipeline hands it to
\* is not available, the packet is dropped and the capture loop keeps
\* running.
C18_LoopUnavailable ==
  [][\A c \in CaptureIds :
       (/\ captures[c] = "line" /\ running /\ loop = "closed"
        /\ lines[c] \in {TcpLine, IcmpLine}
        /\ captures'[c] # "line")
       => /\ sent' = sent
          /\ captures'[c] = "reading"
          /\ running']_vars

\* ---- C19
\* the two status lines of the example and the rules the claim gives for them
ExampleOutput == <<SshFromHost, AnywhereFromNet>>
ExampleRules ==
  <<NumberedRule(1, PortSsh, "ALLOW", DirIn,
                 <<"1", "9", "2", ".", "1", "6", "8", ".", "1", ".", "5">>),
    NumberedRule(2, AnywhereField, "ALLOW", <<>>,
                 <<"1", "0", ".", "0", ".", "0", ".", "0", "/", "8">>)>>

\* C19: for the status lines "[1] 22/tcp ALLOW IN 192.168.1.5" and
\* "[2] Anywhere ALLOW 10.0.0.0/8" list_rules returns two rules: rule 1 with
\* matcher 22/tcp, action ALLOW, direction IN and source 192.168.1.5, and
\* rule 2 with matcher Anywhere, action ALLOW, no direction and source
\* 10.0.0.0/8.
C19_ExampleRules ==
  (listing.returned /\ ufw_output = ExampleOutput)
    => listing.rules = ExampleRules

\* ---- C20
\* a line the pattern matches
Parseable(raw) == StatusPattern(Strip(raw)) # NoGroups

\* an address literal: four dotted numbers, with or without a prefix length
AddressLiteral(t) ==
  \/ IsIpLiteral(t)
  \/ \E k \in 1..Len(t) : /\ t[k] = "/"
                          /\ IsIpLiteral(SubSeq(t, 1, k - 1))
                          /\ IsDigits(SubSeq(t, k + 1, Len(t)))

\* field-A is one of the forms the claim keeps as the destination matcher
DestinationForm(a) ==
  \/ PortPattern(a) # NoMatch
  \/ AddressLiteral(a)
  \/ Lower(a) \in {Anywhere, <<"i", "p", "v", "6">>}

\* the rule list_rules returned for a parsed line puts the fields where
\* the claim puts them
FieldsAsClaimed(rule, raw) ==
  \E m \in {StatusPattern(Strip(raw))} :
    IF DestinationForm(Strip(m.to))
    THEN rule.rule = Strip(m.to) /\ rule.from = Strip(m.from)
    ELSE rule.rule = Strip(m.from) /\ rule.from = Strip(m.to)

\* C20: for every parsed status line, list_rules keeps field-A as the
\* destination matcher and field-B as the source when field-A is an all-digit
\* port (optionally with /proto), an address literal, "anywhere" or "ipv6";
\* for every other field-A the two fields are swapped.
C20_FieldOrder ==
  listing.returned =>
    \E parsed \in {SelectSeq(ufw_output, Parseable)} :
      /\ Len(listing.rules) = Len(parsed)
      /\ \A i \in 1..Len(parsed) : FieldsAsClaimed(listing.rules[i], parsed[i])

\* ---- C21
\* the digits that stand at position i of s and after it
DigitsAt(s, i) ==
  SubSeq(s, i, i - 1 + Cardinality({k \in i..Len(s) :
                                      \A j \in i..k : IsDigit(s[j])}))

\* the number a stripped status line carries after "[" and white space
NumberIn(line) == ToInt(DigitsAt(line, FirstSolid(line, 2)))
NumberOf(raw) == NumberIn(Strip(raw))

\* C21: list_rules skips every status line it cannot parse without failing,
\* and returns the rules of all parseable lines in the order they appear in
\* the output, each with the sequence number read from its line.
C21_SkipsUnparsedKeepsOrder ==
  listing.returned =>
    \E parsed \in {SelectSeq(ufw_output, Parseable)} :
      /\ Len(listing.rules) = Len(parsed)
      /\ \A i \in 1..Len(parsed) : listing.rules[i].num = NumberOf(parsed[i])

\* a line that is not parsed stands between two that are, the later rule
\* number first
C21_Witness ==
  /\ listing.returned
  /\ ufw_output = <<HostLine, AnywhereFromNet, SshFromHost>>
  /\ Len(listing.rules) = 2
  /\ listing.rules[1].num = 3 /\ listing.rules[2].num = 1

\* ---- C22
\* the tool exited non-zero and the call raised an error carrying its stderr,
\* returning nothing
RaisedWithStderr ==
  /\ ufw_call.tool.exit # 0
  /\ ufw_result.kind = "RuntimeError"
  /\ Contains(ufw_result.text, Strip(ufw_call.tool.stderr))
  /\ ufw_result.rules = <<>>

\* the tool exited zero and the call returned its trimmed stdout
ReturnedStdout ==
  /\ ufw_call.tool.exit = 0
  /\ ufw_result.kind = "str"
  /\ ufw_result.text = Strip(ufw_call.tool.stdout)

\* the tool exited zero and the call returned the rules its trimmed stdout
\* lists
ReturnedRules ==
  /\ ufw_call.tool.exit = 0
  /\ ufw_result.kind = "list"
  /\ ufw_result.rules = ListRulesOf(SplitLines(Strip(ufw_call.tool.stdout)))

\* C22 as stated: every firewall command (enable, disable, reload, status,
\* list_rules, default allow/deny, allow/deny/delete of ip, port, protocol or
\* rule text) whose tool invocation exits non-zero raises an error carrying
\* the tool's stderr and returns no result; on zero exit it returns the
\* tool's trimmed stdout.
C22_CommandResults ==
  ufw_result # NoResult => (RaisedWithStderr \/ ReturnedStdout)

\* C22 amended: as stated for every command but list_rules, which on zero
\* exit returns the list of rules parsed from the tool's trimmed stdout.
C22_CommandResultsAmended ==
  ufw_result # NoResult =>
    \/ RaisedWithStderr
    \/ ufw_call.call.method # "list_rules" /\ ReturnedStdout
    \/ ufw_call.call.method = "list_rules" /\ ReturnedRules

\* list_rules returned the two rules of a numbered status
C22_Witness ==
  /\ ufw_result # NoResult
  /\ ufw_call.call.method = "list_rules"
  /\ ufw_call.tool.exit = 0
  /\ ufw_call.tool.stdout = NumberedStatus
  /\ Len(ufw_result.rules) = 2

\* ---- C23
\* the consumer task t is inside _handle_file_event
InHandler(t) == tasks[t] \in Handling \cup {"handled"}

\* C23: the consumer handles events strictly in the order the watcher
\* enqueued them, one at a time: the handling of an event never starts
\* before the handling of the one before it has finished, and no two events
\* are handled in the reverse of their enqueue order.
C23_InOrderOneAtATime ==
  /\ \A t, u \in TaskIds : (InHandler(t) /\ InHandler(u)) => t = u
  /\ \A i, j \in 1..Len(handled) : i < j => handled[i] < handled[j]

\* the second event is being handled after the first
C23_Witness ==
  /\ handled = <<1, 2>>
  /\ \E t \in TaskIds : InHandler(t) /\ cur[t].n = 2

\* ---- C24
\* C24: every file event enqueued by the watcher is consumed exactly once by
\* the consumer: it is never handled twice, and it is never left unhandled
\* in the queue or lost.
C24_ConsumedExactlyOnce ==
  /\ [](\A i, j \in 1..Len(handled) : handled[i] = handled[j] => i = j)
  /\ \A n \in 1..MaxEvents :
       (emitted >= n) ~> (\E i \in 1..Len(handled) : handled[i] = n)

\* ---- C25
\* C25: no failure while handling one file event (lookup, counter write,
\* alert write, lock write or publish failing) terminates the consumer loop:
\* the failing step leaves the consumer inside its loop, and while the
\* monitor is not stopped a queued event is taken up after the failure.
C25_FailureKeepsConsuming ==
  /\ [][\A t \in TaskIds :
         HandleFails(t) => tasks'[t] \in Handling \cup {"loop", "handled"}]_vars
  /\ \A n, m \in 1..MaxEvents :
       (n \in failed /\ \E i \in 1..Len(event_queue) : event_queue[i].n = m)
         ~> (~monitoring \/ \E i \in 1..Len(handled) : handled[i] = m)

C25_Witness ==
  /\ monitoring
  /\ 1 \in failed
  /\ handled = <<1, 2>>

\* ---- C26
\* C26: add_protected_path(p) always adds p to the in-memory set and
\* registers a new watch only when the watcher is running (never started or
\* stopped: no watch is registered); remove_protected_path(p) removes p from
\* the set and changes no registered watch.
WatcherRunning == observer # 0 /\ observers[observer] = "alive"

C26_PathMembership ==
  [][\A p \in ManagedPaths :
       /\ AddProtectedPath(p) =>
            /\ p \in protected_paths'
            /\ watches' # watches => WatcherRunning
       /\ RemoveProtectedPath(p) =>
            /\ p \notin protected_paths'
            /\ watches' = watches]_vars

\* ---- C27
\* C27: no operation of the file monitor decreases or resets a protected
\* path's access_attempts: across handled events, alerts, auto-locks, start
\* and stop every step leaves each counter as it is or adds 1 to it, 1 is
\* added only by the counter write of an event attributed to that path, and
\* an event that is past its counter write has added exactly 1.
PastCounterWrite == (Handling \ {"get", "update"}) \cup {"handled"}

C28_NoPolicyNoPublication ==
  \A t \in TaskIds :
    (tasks[t] = "handled" /\ ~ShouldAlert(cur[t].type, pf[t]))
    => /\ alerts = h0[t].alerts
       /\ Added(t, FileEventMessage, broadcasts, h0[t].broadcasts) = 0

\* ---- C29
\* C29: the escalation threshold is cumulative: neither locking nor an
\* external unlock resets access_attempts, so an event handled on an
\* auto_lock path that was unlocked with access_attempts above 5 when the
\* event was taken up locks the path again and records and publishes one
\* CRITICAL alert.
UnlockedPastThreshold(t) ==
  /\ pf[t] # None
  /\ pf[t].auto_lock
  /\ h0[t].protected_files[pf[t].id].status = "authorized"
  /\ Attempts(h0[t].protected_files, pf[t].id) > AutoLockThreshold

C29_ThresholdIsCumulative ==
  /\ [][\A id \in FileIds :
          protected_files'[id].status # protected_files[id].status
            => Attempts(protected_files', id) = Attempts(protected_files, id)]_vars
  /\ [][\A t \in TaskIds :
          (tasks[t] = "lock" /\ tasks'[t] # "lock" /\ UnlockedPastThreshold(t)
             /\ protected_files[pf[t].id].status = "authorized")
            => protected_files'[pf[t].id].status = "locked"]_vars
  /\ [](\A t \in TaskIds :
          (tasks[t] = "handled" /\ UnlockedPastThreshold(t))
            => /\ Added(t, CriticalAlert, alerts, h0[t].alerts) = 1
               /\ Added(t, AlertMessage(CriticalAlert), broadcasts,
                        h0[t].broadcasts) = 1)

C29_Witness ==
  \E t \in TaskIds :
    /\ tasks[t] = "handled"
    /\ UnlockedPastThreshold(t)
    /\ protected_files[pf[t].id].status = "locked"

\* ---- C30
\* C30: each PacketMonitor start takes a fresh snapshot of the local
\* addresses: when a capture thread has gone through its start-up with the
\* host reporting the set r, local_ips is exactly r, so an address of an
\* earlier run that is no longer reported is not local any more.
C30_FreshLocalAddresses ==
  [][\A c \in CaptureIds, r \in HostReports :
       (captures[c] = "setup" /\ captures'[c] # "setup"
          /\ local_ips' = local_ips \cup r)
         => local_ips' = r]_vars

\* ---- C31
\* C31: under every interleaving of start() and stop(), stop() running while
\* start() is suspended loading the protected paths included, at most one
\* observer thread is alive, and none is alive once the last stop() has
\* returned and any suspended start() has finished.
C31_ObserverFollowsLifecycle ==
  /\ \A o, u \in ObserverIds : (Alive(o) /\ Alive(u)) => o = u
  /\ Stopped => \A o \in ObserverIds : ~Alive(o)

\* ---- C32
\* C32: check_packet_status returns 'allowed' or 'denied' for every packet and
\* every rule list the normalizer can produce, rules whose matcher or source
\* field is a service name included; it never raises.
C32_AlwaysAVerdict == Classified => verdict \in {"allowed", "denied"}

\* ---- C33
\* C33: a DENY rule created as 'deny from <ip>' (destination matcher
\* 'Anywhere', source <ip>) that is listed first makes check_packet_status
\* return denied for every incoming packet whose source address is <ip>,
\* whatever later rules say.
DenyFromFirst ==
  /\ rules # <<>>
  /\ rules[1].rule = AnywhereField
  /\ rules[1].action = "DENY"
  /\ rules[1].from = packet.src_ip

C33_DenyFromIpDenies ==
  (Classified /\ DenyFromFirst /\ packet.src_ip \notin local_ips)
    => verdict = "denied"

\* ---- C34
\* C34: if loading the firewall rules fails when a capture starts, the
\* capture still runs, with an empty rule set: every packet of that run is
\* classified by the default policy alone (outgoing allowed, incoming
\* denied) whatever rules the firewall holds.
C34_FailedLoadDefaultPolicy ==
  /\ [][\A c \in CaptureIds :
          (captures[c] = "setup" /\ captures'[c] = "reading" /\ load_failed')
            => rules' = <<>>]_vars
  /\ [](load_failed =>
          \A i \in 1..Len(sent) :
            sent[i].status = DefaultPolicy(sent[i].direction = "outgoing"))

C34_Witness ==
  /\ load_failed
  /\ \E c \in CaptureIds : captures[c] = "reading"
  /\ \E i \in 1..Len(sent) : sent[i].port = 22 /\ sent[i].status = "denied"

\* ---- C35
\* C35: after remove_protected_path(p), while p's record still exists, no
\* later event on p or below p is attributed to p's record: an event
\* reported while p was not in protected_paths is never given p's record.
\* (Each event carries the members of protected_paths it concerned when it
\* was reported.)
C35_RemovedPathNotAttributed ==
  [][\A t \in TaskIds :
       (tasks[t] = "get" /\ tasks'[t] = "update")
         => pf'[t].path \in protected_paths \cup cur[t].known]_vars

\* ---- C36
\* C36: an event that was enqueued before stop() and not yet handled is
\* never handled after a later start(): the consumer only ever takes up
\* events reported by an observer that has not been stopped since.
C36_NoStaleEventAfterRestart ==
  [][\A t \in TaskIds :
       (tasks[t] = "wait" /\ tasks'[t] = "get")
         => observers[cur'[t].by] = "alive"]_vars

\* ---- C37: when a broadcast has returned, every connection that stayed in
\* active_connections from its first line to its last and whose send did not
\* raise has received the message exactly once, and every connection whose
\* send raised is gone from active_connections and connection_info
C37_BroadcastReachesEveryone ==
  bcast.pc = "done" =>
    /\ \A c \in bcast.stayed \ bcast.refused : bcast.got[c] = 1
    /\ bcast.refused \cap Range(active_connections[bcast.mgr]) = {}
    /\ bcast.refused \cap connection_info[bcast.mgr] = {}

\* a _monitor_loop task that is inside its while loop: it found
\* self.monitoring set and has neither finished nor been cancelled
LoopRunning(t) == monitor_tasks[t] = "body"

\* no start() is suspended loading rules, no stop() is suspended awaiting the
\* task, and the call that last wrote self.monitoring was a stop()
NetStopped == ~net_monitoring /\ net_loading = 0 /\ net_stopping = {}

\* ---- C38: at most one _monitor_loop task is running at any time, and none
\* is running once the last stop() has returned and no start() is pending
C38_OneMonitorLoop ==
  /\ \A t, u \in NetTaskIds : (LoopRunning(t) /\ LoopRunning(u)) => t = u
  /\ NetStopped => \A t \in NetTaskIds : ~LoopRunning(t)

\* ---- C39: when a broadcast of a network_packet event has returned, every
\* connection that was registered with the application's manager (the one
\* the /ws endpoint connects to) for the whole of it, and whose send did not
\* raise, has received the event
C39_PacketsReachObservers ==
  (bcast.pc = "done" /\ bcast.type = "network_packet") =>
    \A c \in bcast.watching \ bcast.refused : bcast.got[c] >= 1

\* ---- C40: a packet without a destination port (None, or port 0) is matched
\* by no rule: whatever the rule list, its verdict is the default policy of
\* its direction, allowed if outgoing and denied if incoming
Portless == packet.dst_port \in {NoPort, 0}

C40_PortlessGetsDefault ==
  (Classified /\ Portless) =>
    verdict = DefaultPolicy(IsOutgoing(local_ips, packet.src_ip, packet.dst_ip))

====
